---------------------------- MODULE Spec2Model ----------------------------
(***************************************************************************)
(* The H2 ODBC driver (src/h2/src/odbc/driver, src/trunk/h2/src/odbc):     *)
(* the wire codec of Socket, the Connection and Statement state machines   *)
(* and the descriptor records that move fetched values into caller memory. *)
(*                                                                         *)
(* One Connection with its Socket and one Statement are modelled.  The     *)
(* wire is modelled at the level of bytes (0..255): a handler threads a    *)
(* socket record sk = [m_socket, in, out] through its reads and writes,    *)
(* where in holds the bytes the server has delivered and out the bytes     *)
(* the handler has sent.  Strings are sequences of byte values.            *)
(***************************************************************************)
EXTENDS Integers, Sequences, FiniteSets, TLC

VARIABLES
    env,    \* the Environment (h2odbc.h:284) and which handles the caller holds
    conn,   \* the Connection object (odbc.cpp, h2odbc.h:313)
    sock,   \* the Connection's Socket: obj (does the object exist), m_socket
    rx,     \* bytes delivered by the server and not yet read by the client
    stmt,   \* the Statement object with its four descriptors (h2odbc.h:374)
    mem,    \* caller-owned memory the statement's bindings point into
    last    \* the most recent API call: its name, inputs, return code, bytes sent

vars == <<env, conn, sock, rx, stmt, mem, last>>

-----------------------------------------------------------------------------
(* Bounds of the model *)

MaxCols == 2
MaxParams == 2
MaxRows == 2
DataSize == 4
StackLimit == 16

-----------------------------------------------------------------------------
(* Program constants *)

CH_0 == 48
CH_1 == 49
CH_A == 65
CH_B == 66
CH_C == 67
CH_D == 68
CH_E == 69
CH_F == 70
CH_G == 71
CH_I == 73
CH_M == 77
CH_O == 79
CH_P == 80
CH_Q == 81
CH_R == 82
CH_T == 84
CH_U == 85
CH_V == 86
CH_MINUS == 45

SQL_CHAR == 1
SQL_NUMERIC == 2
SQL_DECIMAL == 3
SQL_INTEGER == 4
SQL_SMALLINT == 5
SQL_FLOAT == 6
SQL_REAL == 7
SQL_DOUBLE == 8
SQL_VARCHAR == 12
SQL_LONGVARCHAR == -1
SQL_BINARY == -2
SQL_VARBINARY == -3
SQL_LONGVARBINARY == -4
SQL_BIGINT == -5
SQL_TINYINT == -6
SQL_BIT == -7
SQL_WCHAR == -8
SQL_WVARCHAR == -9
SQL_WLONGVARCHAR == -10
SQL_GUID == -11
SQL_TYPE_DATE == 91
SQL_TYPE_TIME == 92
SQL_TYPE_TIMESTAMP == 93
SQL_C_WCHAR == -8
SQL_C_BIT == -7
SQL_C_TINYINT == -6
SQL_C_SBIGINT == -25
SQL_C_FLOAT == 7
SQL_C_DOUBLE == 8
SQL_C_BINARY == -2
SQL_C_DATE == 9
SQL_C_TIME == 10
SQL_C_TIMESTAMP == 11
SQL_C_DEFAULT == 99
SQL_PARAM_INPUT == 1
SQL_PARAM_INPUT_OUTPUT == 2
SQL_PARAM_OUTPUT == 4
SQL_C_CHAR == 1
SQL_C_LONG == 4
SQL_C_SHORT == 5
SQL_C_SLONG == -16
SQL_C_ULONG == -18
SQL_C_SSHORT == -15
SQL_NULL_DATA == -1
SQL_NTS == -3
SQL_DEFAULT_PARAM == -5
SQL_DATA_AT_EXEC == -2
SQL_ROW_SUCCESS == 0
SQL_ROW_NOROW == 3

E_NONE == "0"
E_08001 == "08001 Client unable to establish connection"
E_08004 == "08004 Server rejected the connection"
E_42000 == "42000 Syntax error or access violation"
E_URL == "Wrong URL format"
E_08003 == "08003 Connection does not exist"
E_22002 == "22002 Indicator variable required but not supplied"
E_HYC00 == "HYC00 Optional feature not implemented"
E_HY097 == "HY097 Column type out of range"
E_IM001 == "IM001 Driver does not support this function"

ConnectionState == {"C_INIT", "C_OPEN", "C_CLOSED"}
StatementState == {"S_PREPARED", "S_EXECUTED", "S_POSITIONED", "S_CLOSED"}

-----------------------------------------------------------------------------
(* Integer widths *)

Two8 == 256
Two16 == 65536
Two24 == 16777216

\* a byte seen through a (signed) char
SignedChar(b) == IF b >= 128 THEN b - Two8 ELSE b

\* an int narrowed to SQLUSMALLINT and stored in a SQLSMALLINT
Narrow16(v) == LET u == v % Two16 IN IF u >= 32768 THEN u - Two16 ELSE u

-----------------------------------------------------------------------------
(* Socket: the wire codec (sockets.cpp) *)

\* Socket::setError: the handle is zeroed
Socket_setError(sk) == [sk EXCEPT !.m_socket = 0]

\* Socket::isClosed, as written
Socket_isClosed(sk) == sk.m_socket # 0

\* Socket::write; sk.tx says whether send() succeeds
Socket_write(sk, bytes) ==
    IF sk.m_socket = 0 THEN sk
    ELSE IF ~sk.tx THEN Socket_setError(sk)
    ELSE [sk EXCEPT !.out = @ \o bytes]

\* What an uninitialized buffer holds at position i: one arbitrary byte
\* (sk.junk) in front, zero bytes after it.
Uninit(sk, i) == IF i = 1 THEN sk.junk ELSE 0

\* Socket::read of len bytes into an uninitialized buffer: the bytes that
\* arrived are stored; when recv reports the end of the stream the socket is
\* marked dead and the rest of the buffer keeps what it held.
Socket_read(sk, len) ==
    IF sk.m_socket = 0 THEN [sk |-> sk, buf |-> [i \in 1..len |-> Uninit(sk, i)]]
    ELSE IF Len(sk.in) >= len
         THEN [sk |-> [sk EXCEPT !.in = SubSeq(@, len + 1, Len(@))],
               buf |-> SubSeq(sk.in, 1, len)]
         ELSE [sk |-> Socket_setError([sk EXCEPT !.in = <<>>]),
               buf |-> [i \in 1..len |->
                          IF i <= Len(sk.in) THEN sk.in[i] ELSE Uninit(sk, i)]]

Socket_readByte(sk) ==
    IF sk.m_socket = 0 THEN [sk |-> sk, v |-> -1]
    ELSE LET r == Socket_read(sk, 1)
         IN  [sk |-> r.sk, v |-> SignedChar(r.buf[1])]

\* the four bytes taken lowest byte first
Mutant_IntOfBytes_LowFirst(b) ==
    SignedChar(b[4]) * Two24 + b[3] * Two16 + b[2] * Two8 + b[1]

\* (b0&0xff)<<24 | (b1&0xff)<<16 | (b2&0xff)<<8 | (b3&0xff), as a 32-bit int
IntOfBytes(b) ==
    SignedChar(b[1]) * Two24 + b[2] * Two16 + b[3] * Two8 + b[4]

Socket_readInt(sk) ==
    IF sk.m_socket = 0 THEN [sk |-> sk, v |-> -1]
    ELSE LET r == Socket_read(sk, 4)
         IN  [sk |-> r.sk, v |-> IntOfBytes(r.buf)]

Socket_readBool(sk) ==
    LET IsOne(r) == [sk |-> r.sk, v |-> (r.v = 1)]
    IN  IsOne(Socket_readInt(sk))

\* the C string held in a buffer: the bytes before the first 0
RECURSIVE CStr(_)
CStr(buf) ==
    IF buf = <<>> \/ Head(buf) = 0 THEN <<>>
    ELSE <<Head(buf)>> \o CStr(Tail(buf))

\* char buffer[len+1] lives on the stack: a length that only an
\* uninitialized int can hold (beyond StackLimit) overruns it and ends the
\* process.
Socket_readString(sk) ==
    IF sk.m_socket = 0 THEN [sk |-> sk, v |-> <<>>]
    ELSE LET Filled(r) == [sk |-> r.sk, v |-> CStr(r.buf)]
             Sized(l, len) ==
                 IF len = 0 THEN [sk |-> l.sk, v |-> <<>>]
                 ELSE IF len > StackLimit
                      THEN [sk |-> [l.sk EXCEPT !.crashed = TRUE], v |-> <<>>]
                 ELSE Filled(Socket_read(l.sk, len))
             Counted(l) == Sized(l, IF l.v < 0 THEN 0 ELSE l.v)
         IN  Counted(Socket_readInt(sk))

Socket_writeByte(sk, byte) == Socket_write(sk, <<byte % Two8>>)

\* (x>>24)&0xff, (x>>16)&0xff, (x>>8)&0xff, x&0xff
BytesOfInt(x) ==
    << (x \div Two24) % Two8, (x \div Two16) % Two8, (x \div Two8) % Two8,
       x % Two8 >>

Socket_writeInt(sk, x) == Socket_write(sk, BytesOfInt(x))

Socket_writeBool(sk, x) == Socket_writeInt(sk, IF x THEN 1 ELSE 0)

\* strlen, then the length and the bytes
Socket_writeString(sk, s) ==
    LET str == CStr(s)
    IN  Socket_write(Socket_writeInt(sk, Len(str)), str)

-----------------------------------------------------------------------------
(* Connection (odbc.cpp) *)

\* Connection::Connection sets m_magic, m_environment, m_state and m_error;
\* m_autoCommit and m_readOnly are left uninitialized.  m_stats holds the
\* connection's Statement objects other than the one the caller is using.
NewConnection(autoCommit) ==
    [m_state |-> "C_INIT", m_error |-> E_NONE, m_autoCommit |-> autoCommit,
     m_stats |-> <<>>]

NoSocket == [obj |-> FALSE, m_socket |-> 0]

\* The socket record a handler works on: the Connection's socket, the bytes
\* the server delivers during the call (after those still unread), nothing
\* sent yet.  tx: does send() succeed; junk: the byte uninitialized buffers hold.
SockIn(resp, tx, junk) ==
    [m_socket |-> sock.m_socket, in |-> rx \o resp, out |-> <<>>,
     tx |-> tx, junk |-> junk, crashed |-> FALSE]

\* Socket::Socket: the handle is nonzero unless socket(), gethostbyname() or
\* connect() fails (setError zeroes it).
NewSocket(established, resp, tx, junk) ==
    [m_socket |-> IF established THEN 1 ELSE 0, in |-> resp, out |-> <<>>,
     tx |-> tx, junk |-> junk, crashed |-> FALSE]

\* Connection::open.  url holds what the code tests of the target string:
\* hasPrefix (strncmp with "jdbc:h2:odbc://"), slash (server.find('/')).
\* The statements "m_state == C_CLOSED;" and "m_state == C_OPEN;" compare
\* and assign nothing.  Result: the connection, the socket record (obj FALSE
\* when no Socket was constructed), whether the connect request and the
\* status read were reached, and the status byte that was read.
Connection_open(c, url, sk0) ==
    IF ~url.hasPrefix
    THEN [c |-> c, obj |-> FALSE, sk |-> sk0, handshake |-> FALSE, status |-> -1]
    ELSE IF url.slash <= 0
    THEN [c |-> [c EXCEPT !.m_error = E_URL], obj |-> FALSE, sk |-> sk0,
          handshake |-> FALSE, status |-> -1]
    ELSE IF Socket_isClosed(sk0)
    THEN [c |-> [c EXCEPT !.m_error = E_08001], obj |-> TRUE, sk |-> sk0,
          handshake |-> FALSE, status |-> -1]
    ELSE LET s1 == Socket_writeByte(sk0, CH_C)
             s2 == Socket_writeString(s1, url.dbname)
             s3 == Socket_writeString(s2, url.user)
             s4 == Socket_writeString(s3, url.password)
             r  == Socket_readByte(s4)
         IN  IF r.v = CH_O
             THEN [c |-> c, obj |-> TRUE, sk |-> r.sk,
                   handshake |-> TRUE, status |-> r.v]
             ELSE [c |-> [c EXCEPT !.m_error = E_08004], obj |-> TRUE, sk |-> r.sk,
                   handshake |-> TRUE, status |-> r.v]

\* setAutoCommit without the comparison with the current value
Mutant_setAutoCommit_Always(c, sk, autocommit) ==
    [c |-> [c EXCEPT !.m_autoCommit = autocommit],
     sk |-> Socket_writeByte(Socket_writeByte(sk, CH_A),
                             IF autocommit THEN CH_1 ELSE CH_0)]

\* Connection::setAutoCommit
Connection_setAutoCommit(c, sk, autocommit) ==
    IF autocommit # c.m_autoCommit
    THEN [c |-> [c EXCEPT !.m_autoCommit = autocommit],
          sk |-> Socket_writeByte(Socket_writeByte(sk, CH_A),
                                  IF autocommit THEN CH_1 ELSE CH_0)]
    ELSE [c |-> c, sk |-> sk]

\* Connection::commit
Connection_commit(c, sk) ==
    [c |-> c, sk |-> Socket_writeByte(Socket_writeByte(sk, CH_A), CH_C)]

\* Connection::rollback
Connection_rollback(c, sk) ==
    [c |-> c, sk |-> Socket_writeByte(Socket_writeByte(sk, CH_A), CH_R)]

\* Socket::close
Socket_close(sk) == [sk EXCEPT !.m_socket = 0]

\* Connection::close
Connection_close(c, sk) ==
    IF c.m_state = "C_OPEN"
    THEN [c |-> [c EXCEPT !.m_state = "C_CLOSED"], sk |-> Socket_close(sk)]
    ELSE [c |-> c, sk |-> sk]

\* Connection::isClosed
Connection_isClosed(c) == c.m_state = "C_CLOSED"

-----------------------------------------------------------------------------
(* Caller memory.  A cell is one caller buffer of DataSize bytes, the byte  *)
(* that follows it in memory, and the SQLINTEGER the caller may pass as     *)
(* StrLen_or_Ind.  A pointer is 0 (null) or the index of a cell.            *)

MemFill == 170
IndFill == 77

FreshCell == [data |-> [i \in 1..(DataSize + 1) |-> MemFill], ind |-> IndFill]

\* dest[off .. off+Len(bytes)-1] = bytes  (off counts from 0)
Poke(data, off, bytes) ==
    [i \in 1..Len(data) |->
        IF i > off /\ i <= off + Len(bytes) THEN bytes[i - off] ELSE data[i]]

\* a 32-bit and a 16-bit store (little-endian) and the matching loads
StoreInt32(data, v) ==
    LET b == BytesOfInt(v) IN Poke(data, 0, <<b[4], b[3], b[2], b[1]>>)
StoreInt16(data, v) ==
    LET b == BytesOfInt(v) IN Poke(data, 0, <<b[4], b[3]>>)
LoadInt32(data) == IntOfBytes(<<data[4], data[3], data[2], data[1]>>)
LoadInt16(data) == SignedChar(data[2]) * Two8 + data[1]

-----------------------------------------------------------------------------
(* sqlUtils.cpp *)

\* returnString(SQLPOINTER dest, SQLINTEGER dest_len, SQLINTEGER* dest_pt,
\*              const char* source) on the cell both pointers refer to
returnString(cell, dest, dest_len, dest_pt, source) ==
    IF dest_len = 0 THEN cell
    ELSE LET s    == CStr(source)
             len  == IF dest_len < Len(s) THEN dest_len ELSE Len(s)
             c1   == IF dest_pt # 0 THEN [cell EXCEPT !.ind = len] ELSE cell
         IN  IF dest # 0
             THEN [c1 EXCEPT !.data =
                      Poke(Poke(@, 0, SubSeq(s, 1, len)), len, <<0>>)]
             ELSE c1

\* returnInt(SQLPOINTER InfoValue, SQLINTEGER* LengthPtr, SQLUINTEGER value)
returnInt(cell, LengthPtr, value) ==
    LET c1 == IF LengthPtr # 0 THEN [cell EXCEPT !.ind = 4] ELSE cell
    IN  [c1 EXCEPT !.data = StoreInt32(@, value)]

\* returnSmall(SQLPOINTER InfoValue, SQLINTEGER* LengthPtr, SQLUSMALLINT value)
returnSmall(cell, LengthPtr, value) ==
    LET c1 == IF LengthPtr # 0 THEN [cell EXCEPT !.ind = 2] ELSE cell
    IN  [c1 EXCEPT !.data = StoreInt16(@, Narrow16(value))]

\* getDefaultCType(int sqlType)
getDefaultCType(sqlType) ==
    IF sqlType \in {SQL_CHAR, SQL_VARCHAR, SQL_LONGVARCHAR, SQL_DECIMAL,
                    SQL_NUMERIC, SQL_GUID} THEN SQL_C_CHAR
    ELSE IF sqlType \in {SQL_WCHAR, SQL_WVARCHAR, SQL_WLONGVARCHAR} THEN SQL_C_WCHAR
    ELSE IF sqlType = SQL_BIT THEN SQL_C_BIT
    ELSE IF sqlType = SQL_TINYINT THEN SQL_C_TINYINT
    ELSE IF sqlType = SQL_SMALLINT THEN SQL_C_SHORT
    ELSE IF sqlType = SQL_INTEGER THEN SQL_C_LONG
    ELSE IF sqlType = SQL_BIGINT THEN SQL_C_SBIGINT
    ELSE IF sqlType = SQL_REAL THEN SQL_C_FLOAT
    ELSE IF sqlType \in {SQL_FLOAT, SQL_DOUBLE} THEN SQL_C_DOUBLE
    ELSE IF sqlType \in {SQL_BINARY, SQL_VARBINARY, SQL_LONGVARBINARY} THEN SQL_C_BINARY
    ELSE IF sqlType = SQL_TYPE_DATE THEN SQL_C_DATE
    ELSE IF sqlType = SQL_TYPE_TIME THEN SQL_C_TIME
    ELSE IF sqlType = SQL_TYPE_TIMESTAMP THEN SQL_C_TIMESTAMP
    ELSE SQL_C_CHAR

-----------------------------------------------------------------------------
(* DescriptorRecord (h2odbc.h:194, odbcDescriptor.cpp) *)

\* DescriptorRecord::DescriptorRecord
NewRecord ==
    [m_sqlDataType |-> 0, m_cDataType |-> 0, m_pointer |-> 0,
     m_statusPointer |-> 0, m_targetBufferLength |-> 0, m_dataInt |-> 0,
     m_dataString |-> <<>>, m_name |-> <<>>, m_columnName |-> <<>>,
     m_tableName |-> <<>>, m_precision |-> 0, m_scale |-> 0,
     m_displaySize |-> 0, m_wasNull |-> FALSE]

\* readMeta leaving the display size of the column unread
Mutant_readMeta_NoDisplaySize(rec, sk) ==
    LET Got(a, r, field) == [rec |-> [a.rec EXCEPT ![field] = r.v], sk |-> r.sk]
        GetInt(a, field) == Got(a, Socket_readInt(a.sk), field)
        GetString(a, field) == Got(a, Socket_readString(a.sk), field)
        Named(a) == [a EXCEPT !.rec.m_columnName = a.rec.m_name]
    IN  GetInt(GetInt(Named(GetString(GetString(GetInt(
            [rec |-> rec, sk |-> sk],
            "m_sqlDataType"), "m_tableName"), "m_name")),
            "m_precision"), "m_scale")

\* DescriptorRecord::readMeta
DescriptorRecord_readMeta(rec, sk) ==
    LET Got(a, r, field) == [rec |-> [a.rec EXCEPT ![field] = r.v], sk |-> r.sk]
        GetInt(a, field) == Got(a, Socket_readInt(a.sk), field)
        GetString(a, field) == Got(a, Socket_readString(a.sk), field)
        Named(a) == [a EXCEPT !.rec.m_columnName = a.rec.m_name]
    IN  GetInt(GetInt(GetInt(Named(GetString(GetString(GetInt(
            [rec |-> rec, sk |-> sk],
            "m_sqlDataType"), "m_tableName"), "m_name")),
            "m_precision"), "m_scale"), "m_displaySize")

\* DescriptorRecord::readData
DescriptorRecord_readData(rec, sk) ==
    IF rec.m_sqlDataType = 0
    THEN [rec |-> [rec EXCEPT !.m_wasNull = TRUE, !.m_dataInt = 0], sk |-> sk]
    ELSE IF rec.m_sqlDataType \in {SQL_SMALLINT, SQL_INTEGER}
    THEN LET Value(v) ==
                 [rec |-> [rec EXCEPT !.m_wasNull = FALSE, !.m_dataInt = v.v],
                  sk |-> v.sk]
             Flag(b) ==
                 IF b.v
                 THEN [rec |-> [rec EXCEPT !.m_wasNull = TRUE, !.m_dataInt = 0],
                       sk |-> b.sk]
                 ELSE Value(Socket_readInt(b.sk))
         IN  Flag(Socket_readBool(sk))
    ELSE IF rec.m_sqlDataType = SQL_VARCHAR
    THEN LET Value(v) ==
                 [rec |-> [rec EXCEPT !.m_wasNull = FALSE, !.m_dataString = v.v],
                  sk |-> v.sk]
         IN  Value(Socket_readString(sk))
    ELSE [rec |-> [rec EXCEPT !.m_wasNull = FALSE], sk |-> sk]

\* itoa(value, buffer, 10)
RECURSIVE Digits(_)
Digits(n) ==
    IF n < 10 THEN <<CH_0 + n>> ELSE Digits(n \div 10) \o <<CH_0 + (n % 10)>>
itoa(v) == IF v < 0 THEN <<CH_MINUS>> \o Digits(0 - v) ELSE Digits(v)

\* atoi: white space, an optional sign, then digits up to the first other byte
IsSpace(ch) == ch = 32 \/ (ch >= 9 /\ ch <= 13)
IsDigit(ch) == ch >= CH_0 /\ ch <= CH_0 + 9
RECURSIVE SkipSpace(_)
SkipSpace(s) ==
    IF s # <<>> /\ IsSpace(Head(s)) THEN SkipSpace(Tail(s)) ELSE s
RECURSIVE DigitsValue(_, _)
DigitsValue(s, acc) ==
    IF s # <<>> /\ IsDigit(Head(s))
    THEN DigitsValue(Tail(s), acc * 10 + (Head(s) - CH_0))
    ELSE acc
atoi(str) ==
    LET s == SkipSpace(CStr(str))
    IN  IF s # <<>> /\ Head(s) = CH_MINUS THEN 0 - DigitsValue(Tail(s), 0)
        ELSE IF s # <<>> /\ Head(s) = 43 THEN DigitsValue(Tail(s), 0)
        ELSE DigitsValue(s, 0)

\* DescriptorRecord::getString (a null pointer and "" both read as "")
DescriptorRecord_getString(rec) ==
    IF rec.m_sqlDataType = SQL_VARCHAR THEN rec.m_dataString
    ELSE IF rec.m_sqlDataType \in {SQL_SMALLINT, SQL_INTEGER} THEN itoa(rec.m_dataInt)
    ELSE <<>>

\* DescriptorRecord::getInt
DescriptorRecord_getInt(rec) ==
    IF rec.m_sqlDataType = SQL_VARCHAR THEN atoi(rec.m_dataString)
    ELSE IF rec.m_sqlDataType \in {SQL_SMALLINT, SQL_INTEGER} THEN rec.m_dataInt
    ELSE 0

\* setNull that also clears the bound value
Mutant_setNull_ClearsData(ar, cell) ==
    IF ar.m_statusPointer # 0
    THEN [cell EXCEPT !.ind = SQL_NULL_DATA, !.data = StoreInt32(@, 0)]
    ELSE cell

\* DescriptorRecord::setNull, on the cell ar's pointers refer to
DescriptorRecord_setNull(ar, cell) ==
    IF ar.m_statusPointer # 0 THEN [cell EXCEPT !.ind = SQL_NULL_DATA] ELSE cell

\* DescriptorRecord::copyData: this (ir) into the memory ar is bound to.
\* Result: the cell and whether a null m_pointer was written through.
DescriptorRecord_copyData(ir, ar, cell) ==
    IF ir.m_wasNull
    THEN [cell |-> DescriptorRecord_setNull(ar, cell), crashed |-> FALSE]
    ELSE IF ar.m_cDataType = SQL_C_CHAR
    THEN [cell |-> returnString(cell, ar.m_pointer, ar.m_targetBufferLength,
                                ar.m_statusPointer, DescriptorRecord_getString(ir)),
          crashed |-> FALSE]
    ELSE IF ar.m_cDataType \in {SQL_C_SLONG, SQL_C_ULONG}
    THEN IF ar.m_pointer = 0 THEN [cell |-> cell, crashed |-> TRUE]
         ELSE [cell |-> returnInt(cell, ar.m_statusPointer, DescriptorRecord_getInt(ir)),
               crashed |-> FALSE]
    ELSE IF ar.m_cDataType = SQL_C_SSHORT
    THEN IF ar.m_pointer = 0 THEN [cell |-> cell, crashed |-> TRUE]
         ELSE [cell |-> returnSmall(cell, ar.m_statusPointer, DescriptorRecord_getInt(ir)),
               crashed |-> FALSE]
    ELSE [cell |-> cell, crashed |-> FALSE]

\* DescriptorRecord::sendParameterValue; cell is the caller memory the
\* record's m_pointer and m_statusPointer refer to.
DescriptorRecord_sendParameterValue(rec, cell, sk) ==
    LET sp     == rec.m_statusPointer # 0
        length == IF sp /\ cell.ind \notin {SQL_NTS, SQL_DEFAULT_PARAM, SQL_DATA_AT_EXEC}
                  THEN cell.ind ELSE rec.m_targetBufferLength
    IN  IF sp /\ cell.ind = SQL_NULL_DATA THEN Socket_writeInt(sk, 0)
        ELSE IF rec.m_pointer = 0 THEN Socket_writeInt(sk, 0)
        ELSE IF rec.m_cDataType = SQL_C_SHORT
        THEN Socket_writeInt(Socket_writeInt(sk, SQL_INTEGER), LoadInt16(cell.data))
        ELSE IF rec.m_cDataType = SQL_C_LONG
        THEN Socket_writeInt(Socket_writeInt(sk, SQL_INTEGER), LoadInt32(cell.data))
        ELSE IF rec.m_cDataType = SQL_C_CHAR
        THEN IF length < 0 THEN Socket_writeInt(sk, 0)
             ELSE IF length > Len(cell.data) /\ Len(CStr(cell.data)) = Len(cell.data)
                  THEN [sk EXCEPT !.crashed = TRUE]
             ELSE Socket_writeString(
                      Socket_writeInt(sk, SQL_VARCHAR),
                      SubSeq(cell.data, 1,
                             IF length > Len(cell.data) THEN Len(cell.data) ELSE length))
        ELSE sk

-----------------------------------------------------------------------------
(* Descriptor (h2odbc.h:81) *)

\* Descriptor::init
NewDescriptor ==
    [m_records |-> <<>>, m_statusPointer |-> 0, m_rowsProcessedPointer |-> 0]

\* Descriptor::clearRecords
Descriptor_clearRecords(d) == [d EXCEPT !.m_records = <<>>]

\* Descriptor::addRecord
Descriptor_addRecord(d, rec) == [d EXCEPT !.m_records = Append(@, rec)]

\* Descriptor::getRecordCount
Descriptor_getRecordCount(d) == Len(d.m_records)

\* does m_records[i] (i counted from 0) name an element of the vector
InRange(d, i) == i >= 0 /\ i < Len(d.m_records)

\* Descriptor::getRecord, for an index in range
Descriptor_getRecord(d, i) == d.m_records[i + 1]

\* Descriptor::setStatus and Descriptor::setRowsProcessed on caller memory
Descriptor_setStatus(d, m, value) ==
    IF d.m_statusPointer # 0 THEN [m EXCEPT !.rowStatus = value] ELSE m
Descriptor_setRowsProcessed(d, m, rows) ==
    IF d.m_rowsProcessedPointer # 0 THEN [m EXCEPT !.rowsFetched = rows] ELSE m

-----------------------------------------------------------------------------
(* Statement (odbcStatement.cpp) *)

\* Statement::Statement; m_state is left uninitialized
NewStatement(state) ==
    [m_state |-> state, m_columnCount |-> 0, m_updateCount |-> 0,
     m_resultSetId |-> -1, m_preparedId |-> 0, m_rowId |-> 0,
     m_hasResultSet |-> FALSE, m_parameterCount |-> 0, m_error |-> E_NONE,
     m_appRow |-> NewDescriptor, m_impRow |-> NewDescriptor,
     m_appParam |-> NewDescriptor, m_impParam |-> NewDescriptor]

\* the loop of processResultSet adding no record to m_appRow
RECURSIVE Mutant_ReadColumns_ImpOnly(_, _, _)
Mutant_ReadColumns_ImpOnly(st, sk, n) ==
    IF n <= 0 THEN [st |-> st, sk |-> sk]
    ELSE LET Add(r) ==
                 Mutant_ReadColumns_ImpOnly(
                     [st EXCEPT !.m_impRow = Descriptor_addRecord(@, r.rec)],
                     r.sk, n - 1)
         IN  Add(DescriptorRecord_readMeta(NewRecord, sk))

\* the loop of processResultSet: n records read into m_impRow, n fresh
\* records added to m_appRow
RECURSIVE ReadColumns(_, _, _)
ReadColumns(st, sk, n) ==
    IF n <= 0 THEN [st |-> st, sk |-> sk]
    ELSE LET Add(r) ==
                 ReadColumns([st EXCEPT !.m_impRow = Descriptor_addRecord(@, r.rec),
                                        !.m_appRow = Descriptor_addRecord(@, NewRecord)],
                             r.sk, n - 1)
         IN  Add(DescriptorRecord_readMeta(NewRecord, sk))

\* Statement::processResultSet.  A column count beyond MaxCols is sent by no
\* modelled server: it is read from an uninitialized buffer, and the loop
\* then allocates until the process ends.
Statement_processResultSet(st, sk) ==
    LET Columns(s1, cc) ==
            IF cc.v > MaxCols
            THEN [st |-> s1, sk |-> [cc.sk EXCEPT !.crashed = TRUE]]
            ELSE ReadColumns(s1, cc.sk, cc.v)
        Counted(id, cc) ==
            Columns([st EXCEPT !.m_rowId = 0, !.m_updateCount = 0,
                               !.m_state = "S_EXECUTED", !.m_hasResultSet = TRUE,
                               !.m_resultSetId = id.v, !.m_columnCount = cc.v,
                               !.m_impRow = Descriptor_clearRecords(@),
                               !.m_appRow = Descriptor_clearRecords(@)], cc)
        Identified(id) == Counted(id, Socket_readInt(id.sk))
    IN  Identified(Socket_readInt(sk))

\* Statement::prepare (m_sql is not modelled)
Statement_prepare(st, sk, sql) ==
    LET s1 == [st EXCEPT !.m_state = "S_PREPARED"]
        Counted(id, pc) ==
            [st |-> [s1 EXCEPT !.m_preparedId = id.v,
                               !.m_parameterCount = pc.v,
                               !.m_impParam = Descriptor_clearRecords(@),
                               !.m_appParam = Descriptor_clearRecords(@)],
             sk |-> pc.sk, ret |-> TRUE]
        Identified(id) == Counted(id, Socket_readInt(id.sk))
        Answer(r) ==
            IF r.v = CH_E
            THEN [st |-> [s1 EXCEPT !.m_parameterCount = 0, !.m_state = "S_CLOSED",
                                    !.m_error = E_42000],
                  sk |-> r.sk, ret |-> FALSE]
            ELSE IF r.v = CH_O THEN Identified(Socket_readInt(r.sk))
            ELSE [st |-> s1, sk |-> r.sk, ret |-> TRUE]
    IN  Answer(Socket_readByte(Socket_writeString(Socket_writeByte(sk, CH_P), sql)))

\* addParameter adding no record to m_impParam
Mutant_addParameter_AppOnly(st) ==
    [st EXCEPT !.m_appParam = Descriptor_addRecord(@, NewRecord)]

\* Statement::addParameter
Statement_addParameter(st) ==
    [st EXCEPT !.m_impParam = Descriptor_addRecord(@, NewRecord),
               !.m_appParam = Descriptor_addRecord(@, NewRecord)]

\* the parameter loop of executePrepared, from index i on; m_records[i]
\* beyond the vector's size is undefined and ends the modelled run
RECURSIVE SendParameters(_, _, _, _)
SendParameters(st, m, sk, i) ==
    IF i >= st.m_parameterCount THEN sk
    ELSE IF ~InRange(st.m_appParam, i) THEN [sk EXCEPT !.crashed = TRUE]
    ELSE LET Sent(v) == IF v.crashed THEN v ELSE SendParameters(st, m, v, i + 1)
         IN  Sent(DescriptorRecord_sendParameterValue(
                      Descriptor_getRecord(st.m_appParam, i), m.par[i + 1],
                      Socket_writeInt(Socket_writeByte(sk, CH_1), i)))

\* Statement::executePrepared
Statement_executePrepared(st, m, sk) ==
    LET s1 == [st EXCEPT !.m_state = "S_EXECUTED", !.m_rowId = 0,
                         !.m_resultSetId = 0, !.m_columnCount = 0,
                         !.m_updateCount = 0]
        Processed(p) == [st |-> p.st, sk |-> p.sk, ret |-> TRUE]
        Updated(u) ==
            [st |-> [s1 EXCEPT !.m_state = "S_EXECUTED", !.m_hasResultSet = FALSE,
                               !.m_updateCount = u.v],
             sk |-> u.sk, ret |-> TRUE]
        Answer(r) ==
            IF r.v = CH_E
            THEN [st |-> [s1 EXCEPT !.m_state = "S_CLOSED", !.m_error = E_42000],
                  sk |-> r.sk, ret |-> FALSE]
            ELSE IF r.v = CH_R THEN Processed(Statement_processResultSet(s1, r.sk))
            ELSE IF r.v = CH_U THEN Updated(Socket_readInt(r.sk))
            ELSE [st |-> s1, sk |-> r.sk, ret |-> TRUE]
        Sent(w1) ==
            IF w1.crashed THEN [st |-> st, sk |-> w1, ret |-> FALSE]
            ELSE Answer(Socket_readByte(Socket_writeByte(w1, CH_0)))
    IN  Sent(SendParameters(
                 st, m, Socket_writeInt(Socket_writeByte(sk, CH_Q), st.m_preparedId), 0))

\* execute returning after an 'O' answer without executing what was prepared
Mutant_execute_NoContinuation(st, m, sk, sql) ==
    LET s1 == [st EXCEPT !.m_state = "S_EXECUTED", !.m_rowId = 0,
                         !.m_resultSetId = 0, !.m_columnCount = 0,
                         !.m_updateCount = 0, !.m_parameterCount = 0]
        Processed(p) == [st |-> p.st, sk |-> p.sk, ret |-> TRUE]
        Updated(u) ==
            [st |-> [s1 EXCEPT !.m_state = "S_EXECUTED", !.m_hasResultSet = FALSE,
                               !.m_updateCount = u.v],
             sk |-> u.sk, ret |-> TRUE]
        Counted(id, pc) ==
            [st |-> [s1 EXCEPT !.m_preparedId = id.v, !.m_parameterCount = pc.v],
             sk |-> pc.sk, ret |-> TRUE]
        Identified(id) == Counted(id, Socket_readInt(id.sk))
        Answer(r) ==
            IF r.v = CH_E
            THEN [st |-> [s1 EXCEPT !.m_state = "S_CLOSED", !.m_error = E_42000],
                  sk |-> r.sk, ret |-> FALSE]
            ELSE IF r.v = CH_R THEN Processed(Statement_processResultSet(s1, r.sk))
            ELSE IF r.v = CH_U THEN Updated(Socket_readInt(r.sk))
            ELSE IF r.v = CH_O THEN Identified(Socket_readInt(r.sk))
            ELSE [st |-> s1, sk |-> r.sk, ret |-> TRUE]
    IN  Answer(Socket_readByte(Socket_writeString(Socket_writeByte(sk, CH_E), sql)))

\* Statement::execute
Statement_execute(st, m, sk, sql) ==
    LET s1 == [st EXCEPT !.m_state = "S_EXECUTED", !.m_rowId = 0,
                         !.m_resultSetId = 0, !.m_columnCount = 0,
                         !.m_updateCount = 0, !.m_parameterCount = 0]
        Processed(p) == [st |-> p.st, sk |-> p.sk, ret |-> TRUE]
        Updated(u) ==
            [st |-> [s1 EXCEPT !.m_state = "S_EXECUTED", !.m_hasResultSet = FALSE,
                               !.m_updateCount = u.v],
             sk |-> u.sk, ret |-> TRUE]
        Counted(id, pc) ==
            Statement_executePrepared(
                [s1 EXCEPT !.m_preparedId = id.v, !.m_parameterCount = pc.v],
                m, pc.sk)
        Identified(id) == Counted(id, Socket_readInt(id.sk))
        Answer(r) ==
            IF r.v = CH_E
            THEN [st |-> [s1 EXCEPT !.m_state = "S_CLOSED", !.m_error = E_42000],
                  sk |-> r.sk, ret |-> FALSE]
            ELSE IF r.v = CH_R THEN Processed(Statement_processResultSet(s1, r.sk))
            ELSE IF r.v = CH_U THEN Updated(Socket_readInt(r.sk))
            ELSE IF r.v = CH_O THEN Identified(Socket_readInt(r.sk))
            ELSE [st |-> s1, sk |-> r.sk, ret |-> TRUE]
    IN  Answer(Socket_readByte(Socket_writeString(Socket_writeByte(sk, CH_E), sql)))

\* the column loop of next, from index i on: Descriptor::readData into
\* m_impRow's record i, then copyData into what m_appRow's record i binds
RECURSIVE FetchColumns(_, _, _, _)
FetchColumns(st, m, sk, i) ==
    IF i >= st.m_columnCount THEN [st |-> st, mem |-> m, sk |-> sk]
    ELSE IF ~InRange(st.m_impRow, i) \/ ~InRange(st.m_appRow, i)
    THEN [st |-> st, mem |-> m, sk |-> [sk EXCEPT !.crashed = TRUE]]
    ELSE LET Copied(s1, r, c) ==
                 IF c.crashed \/ r.sk.crashed
                 THEN [st |-> s1, mem |-> m, sk |-> [r.sk EXCEPT !.crashed = TRUE]]
                 ELSE FetchColumns(s1, [m EXCEPT !.col[i + 1] = c.cell], r.sk, i + 1)
             Read(r) ==
                 Copied([st EXCEPT !.m_impRow.m_records[i + 1] = r.rec], r,
                        DescriptorRecord_copyData(
                            r.rec, Descriptor_getRecord(st.m_appRow, i), m.col[i + 1]))
         IN  Read(DescriptorRecord_readData(Descriptor_getRecord(st.m_impRow, i), sk))

\* next without the test of m_hasResultSet
Mutant_next_NoResultSetTest(st, m, sk) ==
    LET s1 == [st EXCEPT !.m_rowId = @ + 1]
        Row(f) ==
            [st |-> f.st,
             mem |-> Descriptor_setRowsProcessed(
                         f.st.m_impRow,
                         Descriptor_setStatus(f.st.m_impRow, f.mem, SQL_ROW_SUCCESS), 1),
             sk |-> f.sk, ret |-> TRUE]
        NoRow ==
            Descriptor_setRowsProcessed(
                s1.m_impRow, Descriptor_setStatus(s1.m_impRow, m, SQL_ROW_NOROW), 0)
        Answer(r) ==
            IF r.v = CH_E
            THEN [st |-> [s1 EXCEPT !.m_state = "S_CLOSED"], mem |-> m,
                  sk |-> r.sk, ret |-> FALSE]
            ELSE IF r.v = CH_1 THEN Row(FetchColumns(s1, m, r.sk, 0))
            ELSE [st |-> s1, mem |-> NoRow, sk |-> r.sk, ret |-> FALSE]
    IN  Answer(Socket_readByte(
                   Socket_writeInt(Socket_writeByte(sk, CH_G), st.m_resultSetId)))

\* next closing the statement on every answer that is not a row
Mutant_next_ClosesAtEnd(st, m, sk) ==
    IF ~st.m_hasResultSet THEN [st |-> st, mem |-> m, sk |-> sk, ret |-> FALSE]
    ELSE LET s1 == [st EXCEPT !.m_rowId = @ + 1]
             Row(f) ==
                 [st |-> f.st,
                  mem |-> Descriptor_setRowsProcessed(
                              f.st.m_impRow,
                              Descriptor_setStatus(f.st.m_impRow, f.mem, SQL_ROW_SUCCESS),
                              1),
                  sk |-> f.sk, ret |-> TRUE]
             NoRow ==
                 Descriptor_setRowsProcessed(
                     s1.m_impRow, Descriptor_setStatus(s1.m_impRow, m, SQL_ROW_NOROW), 0)
             Answer(r) ==
                 IF r.v = CH_1 THEN Row(FetchColumns(s1, m, r.sk, 0))
                 ELSE [st |-> [s1 EXCEPT !.m_state = "S_CLOSED"], mem |-> NoRow,
                       sk |-> r.sk, ret |-> FALSE]
         IN  Answer(Socket_readByte(
                        Socket_writeInt(Socket_writeByte(sk, CH_G), st.m_resultSetId)))

\* Statement::next
Statement_next(st, m, sk) ==
    IF ~st.m_hasResultSet THEN [st |-> st, mem |-> m, sk |-> sk, ret |-> FALSE]
    ELSE LET s1 == [st EXCEPT !.m_rowId = @ + 1]
             Row(f) ==
                 [st |-> f.st,
                  mem |-> Descriptor_setRowsProcessed(
                              f.st.m_impRow,
                              Descriptor_setStatus(f.st.m_impRow, f.mem, SQL_ROW_SUCCESS),
                              1),
                  sk |-> f.sk, ret |-> TRUE]
             NoRow ==
                 Descriptor_setRowsProcessed(
                     s1.m_impRow, Descriptor_setStatus(s1.m_impRow, m, SQL_ROW_NOROW), 0)
             Answer(r) ==
                 IF r.v = CH_E
                 THEN [st |-> [s1 EXCEPT !.m_state = "S_CLOSED"], mem |-> m,
                       sk |-> r.sk, ret |-> FALSE]
                 ELSE IF r.v = CH_1 THEN Row(FetchColumns(s1, m, r.sk, 0))
                 ELSE [st |-> s1, mem |-> NoRow, sk |-> r.sk, ret |-> FALSE]
         IN  Answer(Socket_readByte(
                        Socket_writeInt(Socket_writeByte(sk, CH_G), st.m_resultSetId)))

\* Statement::closeCursor
Statement_closeCursor(st, sk) ==
    IF st.m_resultSetId >= 0
    THEN [st |-> [st EXCEPT !.m_resultSetId = -1, !.m_state = "S_CLOSED"],
          sk |-> Socket_writeInt(Socket_writeByte(sk, CH_F), st.m_resultSetId)]
    ELSE [st |-> [st EXCEPT !.m_state = "S_CLOSED"], sk |-> sk]

\* getMetaTables leaving the row ordinal as it was
Mutant_getMetaTables_KeepsRowId(st, sk, catalog, schema, table, tabletypes) ==
    LET w == Socket_writeString(Socket_writeString(Socket_writeString(
                 Socket_writeString(Socket_writeByte(Socket_writeByte(sk, CH_M), CH_T),
                                    catalog), schema), table), tabletypes)
        Kept(r) == [r EXCEPT !.st.m_rowId = st.m_rowId]
    IN  Kept(Statement_processResultSet(st, w))

\* Statement::getMetaTables: 'M' 'T', four strings, then processResultSet
Statement_getMetaTables(st, sk, catalog, schema, table, tabletypes) ==
    LET w == Socket_writeString(Socket_writeString(Socket_writeString(
                 Socket_writeString(Socket_writeByte(Socket_writeByte(sk, CH_M), CH_T),
                                    catalog), schema), table), tabletypes)
    IN  Statement_processResultSet(st, w)

\* Statement::getMetaTypeInfoAll: 'M' 'D' 'A', then processResultSet
Statement_getMetaTypeInfoAll(st, sk) ==
    Statement_processResultSet(
        st, Socket_writeByte(Socket_writeByte(Socket_writeByte(sk, CH_M), CH_D), CH_A))

\* Statement::getMetaBestRowIdentifier: 'M' 'B', three strings, the scope,
\* nullable, then processResultSet
Statement_getMetaBestRowIdentifier(st, sk, catalog, schema, table, scope, nullable) ==
    LET w == Socket_writeBool(Socket_writeInt(Socket_writeString(Socket_writeString(
                 Socket_writeString(Socket_writeByte(Socket_writeByte(sk, CH_M), CH_B),
                                    catalog), schema), table), scope), nullable)
    IN  Statement_processResultSet(st, w)

\* Statement::getMetaVersionColumns: 'M' 'V', three strings, then
\* processResultSet
Statement_getMetaVersionColumns(st, sk, catalog, schema, table) ==
    LET w == Socket_writeString(Socket_writeString(
                 Socket_writeString(Socket_writeByte(Socket_writeByte(sk, CH_M), CH_V),
                                    catalog), schema), table)
    IN  Statement_processResultSet(st, w)

\* Statement::getMetaIndexInfo: 'M' 'I', three strings, unique, approximate,
\* then processResultSet
Statement_getMetaIndexInfo(st, sk, catalog, schema, table, unique, approximate) ==
    LET w == Socket_writeBool(Socket_writeBool(Socket_writeString(Socket_writeString(
                 Socket_writeString(Socket_writeByte(Socket_writeByte(sk, CH_M), CH_I),
                                    catalog), schema), table), unique), approximate)
    IN  Statement_processResultSet(st, w)

\* Statement::getMetaColumns: 'M' 'C', four strings, then processResultSet
Statement_getMetaColumns(st, sk, catalog, schema, table, column) ==
    LET w == Socket_writeString(Socket_writeString(Socket_writeString(
                 Socket_writeString(Socket_writeByte(Socket_writeByte(sk, CH_M), CH_C),
                                    catalog), schema), table), column)
    IN  Statement_processResultSet(st, w)

-----------------------------------------------------------------------------
(* The server and the network, as far as the client's decoding fixes them.  *)
(* A response is the byte sequence the server delivers for one call.        *)

RsIds == {7}
PreparedIds == {5}
UpdateCounts == {3}
IntVals == {42, -7}
StrAda == <<65, 100, 97>>
StrHello == <<72, 101, 108, 108, 111>>
StrVals == {StrAda, StrHello}
JunkBytes == {0, CH_O}

EncInt(x) == BytesOfInt(x)
EncBool(b) == BytesOfInt(IF b THEN 1 ELSE 0)
EncStr(str) == BytesOfInt(Len(str)) \o str

\* the six fields readMeta decodes, for a column of type t
EncMeta(t) ==
    EncInt(t) \o EncStr(<<CH_T>>) \o EncStr(<<CH_C, CH_0 + (t % 10)>>)
        \o EncInt(10) \o EncInt(0) \o EncInt(11)

RECURSIVE EncMetas(_)
EncMetas(types) ==
    IF types = <<>> THEN <<>> ELSE EncMeta(Head(types)) \o EncMetas(Tail(types))

\* what processResultSet decodes: id, column count, the columns
EncResultSet(id, types) == EncInt(id) \o EncInt(Len(types)) \o EncMetas(types)

ResultSets(shapes) == {EncResultSet(id, cols) : id \in RsIds, cols \in shapes}

\* the answers to an execute-prepared request
ExecuteAnswers(shapes) ==
    {<<CH_E>>} \cup {<<CH_R>> \o rs : rs \in ResultSets(shapes)}
        \cup {<<CH_U>> \o EncInt(c) : c \in UpdateCounts}

\* the answers to a prepare request
PrepareAnswers(np) ==
    {<<CH_E>>} \cup {<<CH_O>> \o EncInt(id) \o EncInt(k) : id \in PreparedIds, k \in 0..np}

\* the answers to an execute-direct request; after 'O' the answer to the
\* execute-prepared request that follows is delivered too
DirectAnswers(shapes, np) ==
    ExecuteAnswers(shapes)
        \cup {<<CH_O>> \o EncInt(id) \o EncInt(k) \o a :
                 id \in PreparedIds, k \in 0..np, a \in ExecuteAnswers(shapes)}

\* what readData decodes for one column of a row
ColumnData(rec, ints, strs) ==
    IF rec.m_sqlDataType \in {SQL_SMALLINT, SQL_INTEGER}
    THEN {EncBool(TRUE)} \cup {EncBool(FALSE) \o EncInt(v) : v \in ints}
    ELSE IF rec.m_sqlDataType = SQL_VARCHAR THEN {EncStr(v) : v \in strs}
    ELSE {<<>>}

RECURSIVE RowData(_, _, _)
RowData(recs, ints, strs) ==
    IF recs = <<>> THEN {<<>>}
    ELSE {a \o b : a \in ColumnData(Head(recs), ints, strs),
                   b \in RowData(Tail(recs), ints, strs)}

\* the answers to a fetch request for the columns recs
FetchAnswers(recs, ints, strs) ==
    {<<CH_E>>, <<CH_0>>} \cup {<<CH_1>> \o r : r \in RowData(recs, ints, strs)}

\* A network outcome for one call: the bytes that arrive (all of an answer,
\* or its first k bytes, k in cuts, before the stream ends), whether send()
\* works, and the byte uninitialized buffers hold.
Prefixes(answers, cuts) ==
    UNION {{SubSeq(a, 1, k) : k \in (cuts \cap (0..(Len(a) - 1)))} : a \in answers}

Outcomes(answers, cuts) ==
    LET Whole == {[resp |-> a, full |-> TRUE, tx |-> TRUE, junk |-> 0] : a \in answers}
        Cut   == {[resp |-> p, full |-> FALSE, tx |-> TRUE, junk |-> j] :
                     p \in Prefixes(answers, cuts), j \in JunkBytes}
        Unsent == {[resp |-> <<>>, full |-> FALSE, tx |-> FALSE, junk |-> 0]}
    IN  {o : o \in Whole \cup Cut \cup Unsent}

\* the answers to a connect request, and a call that is sent no answer
ConnectAnswers == {<<CH_O>>, <<CH_E>>}
NoAnswer == Outcomes({<<>>}, {})

\* the objects a constructor can leave behind
Connections == {NewConnection(a) : a \in BOOLEAN}
Statements == {NewStatement(s) : s \in StatementState}

\* the catalog queries, and the identifier types SQLSpecialColumns is asked for
CatalogCalls == {"SQLColumns", "SQLSpecialColumns", "SQLStatistics"}
IdentifierTypes == {"SQL_BEST_ROWID", "SQL_ROWVER", "other"}

\* the two metadata queries; what a call through a wild record pointer can
\* end in; the two row attributes and the pointers they are given; what
\* follows a written value on the wire
MetaCalls == {"SQLTables", "SQLGetTypeInfo"}
WildReturns == {"CRASH", "SQL_ERROR", "SQL_SUCCESS"}
RowAttributes == {"SQL_ATTR_ROW_STATUS_PTR", "SQL_ATTR_ROWS_FETCHED_PTR"}
Pointers == {0, 1}
Trailers == {<<>>, <<CH_O>>}

-----------------------------------------------------------------------------
(* The ODBC entry points (sql.cpp, sqlConnectAttr.cpp, sqlMetaInfo.cpp) as   *)
(* the actions of the model.  last records the call that was made: its name, *)
(* what it was given (info), its return code, the bytes it sent and the      *)
(* bytes the server delivered to it (answered: a whole answer).  rejected    *)
(* says that the most recent SQLPrepare was answered 'E', update that the    *)
(* most recent execute-type call was an SQLExecDirect answered 'U'.          *)

NoCall ==
    [op |-> "none", ret |-> "none", info |-> <<>>, live |-> FALSE,
     sent |-> <<>>, resp |-> <<>>, answered |-> FALSE,
     rejected |-> FALSE, update |-> FALSE]

\* the process has ended (a wild pointer was used, the stack was overrun)
Crashed == last.ret = "CRASH"

Crash(op, info) ==
    /\ UNCHANGED env
    /\ last' = [last EXCEPT !.op = op, !.ret = "CRASH", !.info = info,
                            !.sent = <<>>, !.resp = <<>>, !.answered = FALSE]
    /\ UNCHANGED <<conn, sock, rx, stmt, mem>>

\* on a dead session nothing is delivered
DeadOutcome == [resp |-> <<>>, full |-> FALSE, tx |-> FALSE, junk |-> 0]
Net(outs) == IF sock.m_socket = 0 THEN {DeadOutcome} ELSE outs

\* the socket after a call; the server answers requests only, so a call that
\* sent nothing was delivered nothing
Settle(sk) ==
    /\ sock' = [sock EXCEPT !.m_socket = sk.m_socket]
    /\ rx' = IF sk.m_socket = 0 THEN <<>>
             ELSE IF sk.out = <<>> THEN rx ELSE sk.in

Delivered(sk, o) == IF sk.out = <<>> THEN <<>> ELSE o.resp

Called(op, info, ret, sk, o) ==
    [last EXCEPT !.op = op, !.ret = ret, !.info = info,
                 !.live = (sock.m_socket # 0 /\ o.tx),
                 !.sent = sk.out, !.resp = Delivered(sk, o),
                 !.answered = (o.full /\ sk.out # <<>>)]

\* was the call delivered a whole answer that starts with byte b
Answered(sk, o, b) ==
    o.full /\ sk.out # <<>> /\ o.resp # <<>> /\ Head(o.resp) = b

Url(hasPrefix, slash) ==
    [hasPrefix |-> hasPrefix, slash |-> slash, dbname |-> <<116>>,
     user |-> <<115, 97>>, password |-> <<>>]
Urls == {Url(TRUE, 14), Url(TRUE, -1), Url(TRUE, 0), Url(FALSE, -1)}

SqlTexts == {<<83, 49>>}

\* SQLConnect: always SQL_SUCCESS.  again: may the caller connect a
\* connection that has a socket already
SQLConnect(urls, cuts, again) ==
    /\ ~Crashed
    /\ again \/ ~sock.obj
    /\ \E url \in urls, established \in BOOLEAN,
          o \in Outcomes(ConnectAnswers, cuts) :
         LET c0 == [conn EXCEPT !.m_error = E_NONE]
             r  == Connection_open(c0, url, NewSocket(established, o.resp, o.tx, o.junk))
         IN  /\ conn' = r.c
             /\ sock' = IF r.obj THEN [obj |-> TRUE, m_socket |-> r.sk.m_socket]
                        ELSE sock
             /\ rx' = IF ~r.obj THEN rx
                      ELSE IF r.sk.m_socket = 0 \/ r.sk.out = <<>> THEN <<>>
                      ELSE r.sk.in
             /\ UNCHANGED env
             /\ last' = [last EXCEPT
                           !.op = "SQLConnect", !.ret = "SQL_SUCCESS",
                           !.info = [url |-> url, established |-> established,
                                     handshake |-> r.handshake, status |-> r.status],
                           !.live = (established /\ o.tx),
                           !.sent = IF r.obj THEN r.sk.out ELSE <<>>,
                           !.resp = IF r.obj THEN Delivered(r.sk, o) ELSE <<>>,
                           !.answered = (r.obj /\ o.full /\ r.sk.out # <<>>)]
             /\ UNCHANGED <<stmt, mem>>

\* SQLDriverConnect: SQL_ERROR if open left an error on the connection.
\* url is what the data source named in the connection string is configured
\* with, the empty text (no prefix) if the string names no data source; the
\* completed connection string returned to the caller is not modelled.
SQLDriverConnect(urls, cuts, again) ==
    /\ ~Crashed
    /\ again \/ ~sock.obj
    /\ \E url \in urls, established \in BOOLEAN,
          o \in Outcomes(ConnectAnswers, cuts) :
         LET c0 == [conn EXCEPT !.m_error = E_NONE]
             r  == Connection_open(c0, url, NewSocket(established, o.resp, o.tx, o.junk))
         IN  /\ conn' = r.c
             /\ sock' = IF r.obj THEN [obj |-> TRUE, m_socket |-> r.sk.m_socket]
                        ELSE sock
             /\ rx' = IF ~r.obj THEN rx
                      ELSE IF r.sk.m_socket = 0 \/ r.sk.out = <<>> THEN <<>>
                      ELSE r.sk.in
             /\ UNCHANGED env
             /\ last' = [last EXCEPT
                           !.op = "SQLDriverConnect",
                           !.ret = IF r.c.m_error # E_NONE THEN "SQL_ERROR"
                                   ELSE "SQL_SUCCESS",
                           !.info = [url |-> url, established |-> established,
                                     handshake |-> r.handshake, status |-> r.status],
                           !.live = (established /\ o.tx),
                           !.sent = IF r.obj THEN r.sk.out ELSE <<>>,
                           !.resp = IF r.obj THEN Delivered(r.sk, o) ELSE <<>>,
                           !.answered = (r.obj /\ o.full /\ r.sk.out # <<>>)]
             /\ UNCHANGED <<stmt, mem>>

\* SQLSetConnectAttr(SQL_ATTR_AUTOCOMMIT, SQL_AUTOCOMMIT_ON / _OFF); before
\* any connect m_socket is an uninitialized pointer
SQLSetConnectAttr ==
    /\ ~Crashed
    /\ \E flag \in BOOLEAN, o \in Net(NoAnswer) :
         LET c0   == [conn EXCEPT !.m_error = E_NONE]
             info == [flag |-> flag, was |-> conn.m_autoCommit]
             r    == Connection_setAutoCommit(c0, SockIn(o.resp, o.tx, o.junk), flag)
         IN  IF ~sock.obj /\ flag # c0.m_autoCommit
             THEN Crash("SQLSetConnectAttr", info)
             ELSE /\ conn' = r.c
                  /\ Settle(r.sk)
                  /\ UNCHANGED env
                  /\ last' = Called("SQLSetConnectAttr", info, "SQL_SUCCESS", r.sk, o)
                  /\ UNCHANGED <<stmt, mem>>

\* SQLEndTran(SQL_HANDLE_DBC, handle, SQL_COMMIT / SQL_ROLLBACK)
SQLEndTran ==
    /\ ~Crashed
    /\ \E commit \in BOOLEAN, o \in Net(NoAnswer) :
         LET c0 == [conn EXCEPT !.m_error = E_NONE]
             sk == SockIn(o.resp, o.tx, o.junk)
             r  == IF commit THEN Connection_commit(c0, sk) ELSE Connection_rollback(c0, sk)
         IN  IF ~sock.obj
             THEN Crash("SQLEndTran", commit)
             ELSE /\ conn' = r.c
                  /\ Settle(r.sk)
                  /\ UNCHANGED env
                  /\ last' = Called("SQLEndTran", commit, "SQL_SUCCESS", r.sk, o)
                  /\ UNCHANGED <<stmt, mem>>

\* SQLDisconnect
SQLDisconnect ==
    /\ ~Crashed
    /\ LET c0 == [conn EXCEPT !.m_error = E_NONE]
           o  == [DeadOutcome EXCEPT !.tx = TRUE]
           r  == Connection_close(c0, SockIn(<<>>, TRUE, 0))
       IN  IF ~sock.obj /\ c0.m_state = "C_OPEN"
           THEN Crash("SQLDisconnect", <<>>)
           ELSE /\ conn' = r.c
                /\ Settle(r.sk)
                /\ UNCHANGED env
                /\ last' = Called("SQLDisconnect", <<>>, "SQL_SUCCESS", r.sk, o)
                /\ UNCHANGED <<stmt, mem>>

RetOf(b) == IF b THEN "SQL_SUCCESS" ELSE "SQL_ERROR"

\* SQLPrepare
SQLPrepare(outs) ==
    /\ ~Crashed
    /\ \E sql \in SqlTexts, o \in Net(outs) :
         LET s0 == [stmt EXCEPT !.m_error = E_NONE]
             Return(r) ==
                 IF ~sock.obj \/ r.sk.crashed
                 THEN Crash("SQLPrepare", sql)
                 ELSE /\ stmt' = r.st
                      /\ Settle(r.sk)
                      /\ UNCHANGED env
                      /\ last' = [Called("SQLPrepare", sql, RetOf(r.ret), r.sk, o)
                                    EXCEPT !.rejected = Answered(r.sk, o, CH_E)]
                      /\ UNCHANGED <<conn, mem>>
         IN  Return(Statement_prepare(s0, SockIn(o.resp, o.tx, o.junk), sql))

\* the loop of SQLBindParameter: addParameter until record n exists
RECURSIVE AddParameters(_, _)
AddParameters(st, n) ==
    IF Descriptor_getRecordCount(st.m_appParam) <= n
    THEN AddParameters(Statement_addParameter(st), n)
    ELSE st

\* SQLBindParameter.  p: InputOutputType, ValueType, ParameterType,
\* ColumnSize, and whether ParameterValuePtr and StrLen_or_IndPtr are given
\* (they point to caller cell ParameterNumber).
SQLBindParameter(profiles) ==
    /\ ~Crashed
    /\ \E n \in 1..MaxParams, p \in profiles :
         LET s0  == [stmt EXCEPT !.m_error = E_NONE]
             s1  == AddParameters(s0, n - 1)
             vt  == IF p.ValueType = SQL_C_DEFAULT
                    THEN getDefaultCType(p.ParameterType) ELSE p.ValueType
             rec == [Descriptor_getRecord(s1.m_appParam, n - 1) EXCEPT
                       !.m_sqlDataType = p.ParameterType, !.m_cDataType = vt,
                       !.m_pointer = IF p.ptr THEN n ELSE 0,
                       !.m_targetBufferLength = p.ColumnSize,
                       !.m_statusPointer = IF p.ind THEN n ELSE 0]
             ok  == p.InputOutputType \in
                      {SQL_PARAM_INPUT, SQL_PARAM_INPUT_OUTPUT, SQL_PARAM_OUTPUT}
         IN  /\ stmt' = IF ok THEN [s1 EXCEPT !.m_appParam.m_records[n] = rec] ELSE s0
             /\ UNCHANGED env
             /\ last' = [last EXCEPT !.op = "SQLBindParameter", !.ret = RetOf(ok),
                                     !.info = <<n, p>>, !.live = FALSE, !.sent = <<>>,
                                     !.resp = <<>>, !.answered = FALSE]
             /\ UNCHANGED <<conn, sock, rx, mem>>

\* SQLExecute
SQLExecute(outs) ==
    /\ ~Crashed
    /\ \E o \in Net(outs) :
         LET s0 == [stmt EXCEPT !.m_error = E_NONE]
             Return(r) ==
                 IF ~sock.obj \/ r.sk.crashed
                 THEN Crash("SQLExecute", <<>>)
                 ELSE /\ stmt' = r.st
                      /\ Settle(r.sk)
                      /\ UNCHANGED env
                      /\ last' = [Called("SQLExecute", <<>>, RetOf(r.ret), r.sk, o)
                                    EXCEPT !.update = FALSE]
                      /\ UNCHANGED <<conn, mem>>
         IN  Return(Statement_executePrepared(s0, mem, SockIn(o.resp, o.tx, o.junk)))

\* SQLExecDirect.  again: may the caller execute while the statement has a
\* result set
SQLExecDirect(outs, again) ==
    /\ ~Crashed
    /\ again \/ ~stmt.m_hasResultSet
    /\ \E sql \in SqlTexts, o \in Net(outs) :
         LET s0 == [stmt EXCEPT !.m_error = E_NONE]
             Return(r) ==
                 IF ~sock.obj \/ r.sk.crashed
                 THEN Crash("SQLExecDirect", sql)
                 ELSE /\ stmt' = r.st
                      /\ Settle(r.sk)
                      /\ UNCHANGED env
                      /\ last' = [Called("SQLExecDirect", sql, RetOf(r.ret), r.sk, o)
                                    EXCEPT !.update = Answered(r.sk, o, CH_U)]
                      /\ UNCHANGED <<conn, mem>>
         IN  Return(Statement_execute(s0, mem, SockIn(o.resp, o.tx, o.junk), sql))

\* SQLTables and SQLGetTypeInfo(SQL_ALL_TYPES): always SQL_SUCCESS
SQLMetaQuery(outs) ==
    /\ ~Crashed
    /\ \E op \in MetaCalls, o \in Net(outs) :
         LET s0 == [stmt EXCEPT !.m_error = E_NONE]
             sk == SockIn(o.resp, o.tx, o.junk)
             Return(r) ==
                 IF ~sock.obj \/ r.sk.crashed
                 THEN Crash(op, <<>>)
                 ELSE /\ stmt' = r.st
                      /\ Settle(r.sk)
                      /\ UNCHANGED env
                      /\ last' = [Called(op, <<>>, "SQL_SUCCESS", r.sk, o)
                                    EXCEPT !.update = FALSE]
                      /\ UNCHANGED <<conn, mem>>
         IN  Return(IF op = "SQLTables"
                    THEN Statement_getMetaTables(s0, sk, <<>>, <<>>, <<CH_T>>, <<>>)
                    ELSE Statement_getMetaTypeInfoAll(s0, sk))

\* SQLColumns, SQLSpecialColumns and SQLStatistics, for table "T" in any
\* catalog and schema: SQL_SUCCESS, but SQL_ERROR for an identifier type that
\* is neither SQL_BEST_ROWID nor SQL_ROWVER
SQLCatalogQuery(outs) ==
    /\ ~Crashed
    /\ \E op \in CatalogCalls, IdentifierType \in IdentifierTypes, o \in Net(outs) :
         LET s0   == [stmt EXCEPT !.m_error = E_NONE]
             sk   == SockIn(o.resp, o.tx, o.junk)
             info == IF op = "SQLSpecialColumns" THEN <<IdentifierType>> ELSE <<>>
             Return(r) ==
                 IF ~sock.obj \/ r.sk.crashed
                 THEN Crash(op, info)
                 ELSE /\ stmt' = r.st
                      /\ Settle(r.sk)
                      /\ UNCHANGED env
                      /\ last' = [Called(op, info, "SQL_SUCCESS", r.sk, o)
                                    EXCEPT !.update = FALSE]
                      /\ UNCHANGED <<conn, mem>>
         IN  IF op = "SQLSpecialColumns" /\ IdentifierType = "other"
             THEN /\ stmt' = [s0 EXCEPT !.m_error = E_HY097]
                  /\ UNCHANGED env
                  /\ last' = [last EXCEPT !.op = op, !.ret = "SQL_ERROR", !.info = info,
                                          !.live = FALSE, !.sent = <<>>, !.resp = <<>>,
                                          !.answered = FALSE]
                  /\ UNCHANGED <<conn, sock, rx, mem>>
             ELSE Return(
                      IF op = "SQLColumns"
                      THEN Statement_getMetaColumns(s0, sk, <<>>, <<>>, <<CH_T>>, <<>>)
                      ELSE IF op = "SQLStatistics"
                      THEN Statement_getMetaIndexInfo(s0, sk, <<>>, <<>>, <<CH_T>>, FALSE, TRUE)
                      ELSE IF IdentifierType = "SQL_BEST_ROWID"
                      THEN Statement_getMetaBestRowIdentifier(
                               s0, sk, <<>>, <<>>, <<CH_T>>, 0, TRUE)
                      ELSE Statement_getMetaVersionColumns(s0, sk, <<>>, <<>>, <<CH_T>>))

\* SQLBindCol.  p: TargetType, BufferLength, and whether TargetValue and
\* StrLen_or_Ind are given (they point to caller cell ColumnNumber).  A
\* record index at or beyond the vector's size reads a wild pointer: the
\* call ends the process, finds it null, or writes through it unnoticed.
\* late: may the caller bind after rows have been fetched
SQLBindCol(profiles, late) ==
    /\ ~Crashed
    /\ late \/ stmt.m_rowId = 0
    /\ \E n \in 0..MaxCols, p \in profiles, wild \in WildReturns :
         LET s0  == [stmt EXCEPT !.m_error = E_NONE]
             i   == (n - 1) % Two16
             rec == [Descriptor_getRecord(s0.m_appRow, i) EXCEPT
                       !.m_cDataType = p.TargetType,
                       !.m_pointer = IF p.ptr THEN n ELSE 0,
                       !.m_targetBufferLength = p.BufferLength,
                       !.m_statusPointer = IF p.ind THEN n ELSE 0]
             ret == IF i > s0.m_columnCount THEN "SQL_ERROR"
                    ELSE IF ~InRange(s0.m_appRow, i) THEN wild
                    ELSE "SQL_SUCCESS"
         IN  IF ret = "CRASH"
             THEN Crash("SQLBindCol", <<n, p>>)
             ELSE /\ stmt' = IF i <= s0.m_columnCount /\ InRange(s0.m_appRow, i)
                             THEN [s0 EXCEPT !.m_appRow.m_records[n] = rec]
                             ELSE s0
                  /\ UNCHANGED env
                  /\ last' = [last EXCEPT !.op = "SQLBindCol", !.ret = ret,
                                          !.info = <<n, p>>, !.live = FALSE,
                                          !.sent = <<>>, !.resp = <<>>,
                                          !.answered = FALSE]
                  /\ UNCHANGED <<conn, sock, rx, mem>>

\* what m_records[i] beyond the vector's size can be read as
WildRecords == {NewRecord, [NewRecord EXCEPT !.m_wasNull = TRUE]}

\* the body of SQLGetData once the record is in hand: the caller's cell
\* after the call, the diagnostic, the return code
GetData(rec, p, cell) ==
    LET TargetType == IF p.TargetType = SQL_C_DEFAULT
                      THEN getDefaultCType(rec.m_sqlDataType) ELSE p.TargetType
        ptr == IF p.ptr THEN 1 ELSE 0
        ind == IF p.ind THEN 1 ELSE 0
        Done(c, e, ret) == [cell |-> c, error |-> e, ret |-> ret]
    IN  IF rec.m_wasNull
        THEN IF ind = 0 THEN Done(cell, E_22002, "SQL_ERROR")
             ELSE Done([cell EXCEPT !.ind = SQL_NULL_DATA], E_NONE, "SQL_SUCCESS")
        ELSE IF TargetType \in {SQL_CHAR, SQL_VARCHAR}
        THEN Done(returnString(cell, ptr, p.BufferLength, ind,
                               DescriptorRecord_getString(rec)),
                  E_NONE, "SQL_SUCCESS")
        ELSE IF TargetType = SQL_INTEGER
        THEN IF ptr = 0 THEN Done(cell, E_NONE, "CRASH")
             ELSE Done(returnInt(cell, ind, DescriptorRecord_getInt(rec)),
                       E_NONE, "SQL_SUCCESS")
        ELSE IF TargetType = SQL_SMALLINT
        THEN IF ptr = 0 THEN Done(cell, E_NONE, "CRASH")
             ELSE Done(returnSmall(cell, ind, DescriptorRecord_getInt(rec)),
                       E_NONE, "SQL_SUCCESS")
        ELSE Done(cell, E_NONE, "SQL_SUCCESS")

\* SQLGetData into a fresh caller buffer (cell mem.get).  p: TargetType,
\* BufferLength, and whether TargetValue and StrLen_or_Ind are given.  A
\* record index at or beyond the vector's size reads a wild pointer: the
\* call ends the process or takes what it finds there for a record.
SQLGetData(profiles) ==
    /\ ~Crashed
    /\ \E n \in 0..MaxCols, p \in profiles, crash \in BOOLEAN, wild \in WildRecords :
         LET s0 == [stmt EXCEPT !.m_error = E_NONE]
             i  == (n - 1) % Two16
             Return(r) ==
                 IF r.ret = "CRASH"
                 THEN Crash("SQLGetData", <<n, p>>)
                 ELSE /\ stmt' = [s0 EXCEPT !.m_error = r.error]
                      /\ mem' = [mem EXCEPT !.get = r.cell]
                      /\ UNCHANGED env
                      /\ last' = [last EXCEPT !.op = "SQLGetData", !.ret = r.ret,
                                              !.info = <<n, p>>, !.live = FALSE,
                                              !.sent = <<>>, !.resp = <<>>,
                                              !.answered = FALSE]
                      /\ UNCHANGED <<conn, sock, rx>>
         IN  IF i > s0.m_columnCount
             THEN Return([cell |-> mem.get, error |-> E_NONE, ret |-> "SQL_ERROR"])
             ELSE IF InRange(s0.m_impRow, i)
             THEN Return(GetData(Descriptor_getRecord(s0.m_impRow, i), p, FreshCell))
             ELSE IF crash THEN Crash("SQLGetData", <<n, p>>)
             ELSE Return(GetData(wild, p, FreshCell))

\* the records of m_impRow that next() decodes a row into
FetchedColumns(st) ==
    SubSeq(st.m_impRow.m_records, 1,
           IF st.m_columnCount < Len(st.m_impRow.m_records)
           THEN (IF st.m_columnCount < 0 THEN 0 ELSE st.m_columnCount)
           ELSE Len(st.m_impRow.m_records))

\* SQLFetch; the server sends a row of the columns the client decodes
SQLFetch(ints, strs, cuts) ==
    /\ ~Crashed
    /\ stmt.m_hasResultSet => stmt.m_rowId < MaxRows
    /\ \E o \in Net(Outcomes(FetchAnswers(FetchedColumns(stmt), ints, strs), cuts)) :
         LET s0 == [stmt EXCEPT !.m_error = E_NONE]
             Return(r) ==
                 IF (s0.m_hasResultSet /\ ~sock.obj) \/ r.sk.crashed
                 THEN Crash("SQLFetch", <<>>)
                 ELSE /\ stmt' = r.st
                      /\ mem' = r.mem
                      /\ Settle(r.sk)
                      /\ UNCHANGED env
                      /\ last' = Called("SQLFetch", [m_state |-> stmt.m_state],
                                        IF r.ret THEN "SQL_SUCCESS" ELSE "SQL_NO_DATA",
                                        r.sk, o)
                      /\ UNCHANGED conn
         IN  Return(Statement_next(s0, mem, SockIn(o.resp, o.tx, o.junk)))

\* SQLSetStmtAttr for SQL_ATTR_ROW_STATUS_PTR and SQL_ATTR_ROWS_FETCHED_PTR;
\* Value is null (0) or points to the caller's rowStatus / rowsFetched
SQLSetStmtAttr ==
    /\ ~Crashed
    /\ \E Attribute \in RowAttributes, Value \in Pointers :
         LET s0 == [stmt EXCEPT !.m_error = E_NONE]
         IN  /\ stmt' = IF Attribute = "SQL_ATTR_ROW_STATUS_PTR"
                         THEN [s0 EXCEPT !.m_appRow.m_statusPointer = Value]
                         ELSE [s0 EXCEPT !.m_impRow.m_rowsProcessedPointer = Value]
             /\ last' = [last EXCEPT !.op = "SQLSetStmtAttr", !.ret = "SQL_SUCCESS",
                                     !.info = <<Attribute, Value>>, !.live = FALSE,
                                     !.sent = <<>>, !.resp = <<>>, !.answered = FALSE]
             /\ UNCHANGED <<env, conn, sock, rx, mem>>

\* SQLCloseCursor
SQLCloseCursor ==
    /\ ~Crashed
    /\ \E o \in Net(NoAnswer) :
         LET s0 == [stmt EXCEPT !.m_error = E_NONE]
             Return(r) ==
                 IF s0.m_resultSetId >= 0 /\ ~sock.obj
                 THEN Crash("SQLCloseCursor", <<>>)
                 ELSE /\ stmt' = r.st
                      /\ Settle(r.sk)
                      /\ UNCHANGED env
                      /\ last' = Called("SQLCloseCursor", <<>>, "SQL_SUCCESS", r.sk, o)
                      /\ UNCHANGED <<conn, mem>>
         IN  Return(Statement_closeCursor(s0, SockIn(o.resp, o.tx, o.junk)))

\* SQLCancel: traces and returns SQL_SUCCESS
SQLCancel ==
    /\ ~Crashed
    /\ UNCHANGED env
    /\ last' = [last EXCEPT !.op = "SQLCancel", !.ret = "SQL_SUCCESS",
                            !.info = [after |-> last.op, afterRet |-> last.ret],
                            !.live = FALSE, !.sent = <<>>, !.resp = <<>>,
                            !.answered = FALSE]
    /\ UNCHANGED <<conn, sock, rx, stmt, mem>>

\* the handles a diagnostic is asked of, and the record numbers asked for
DiagHandles == {"SQL_HANDLE_DBC", "SQL_HANDLE_STMT"}
RecNumbers == {1, 2}

\* SQLGetDiagRec with a buffer of BufferLength >= 0.  error is the handle's
\* m_error: its first five characters are copied to Sqlstate and the text
\* from its seventh character on to MessageText.  info records the call made
\* before, what it returned and, if it was SQLGetDiagRec, of which handle.
SQLGetDiagRec ==
    /\ ~Crashed
    /\ \E HandleType \in DiagHandles, RecNumber \in RecNumbers :
         LET error == IF HandleType = "SQL_HANDLE_DBC" THEN conn.m_error
                      ELSE stmt.m_error
             ret   == IF RecNumber > 1 \/ error = E_NONE THEN "SQL_NO_DATA"
                      ELSE "SQL_SUCCESS"
         IN  /\ UNCHANGED env
             /\ last' = [last EXCEPT
                           !.op = "SQLGetDiagRec", !.ret = ret,
                           !.info = [HandleType |-> HandleType,
                                     RecNumber |-> RecNumber,
                                     error |-> IF ret = "SQL_SUCCESS" THEN error ELSE E_NONE,
                                     after |-> last.op, afterRet |-> last.ret,
                                     afterHandle |->
                                         IF last.op = "SQLGetDiagRec"
                                         THEN last.info.HandleType ELSE "none"],
                           !.live = FALSE, !.sent = <<>>, !.resp = <<>>,
                           !.answered = FALSE]
             /\ UNCHANGED <<conn, sock, rx, stmt, mem>>

-----------------------------------------------------------------------------
(* Handles (sql.cpp SQLAllocHandle, SQLFreeHandle; odbc.cpp Environment).   *)
(* env holds the Environment's m_openConnections and which of the three     *)
(* handles (environment, connection, statement) the caller holds; the       *)
(* caller passes only handles it holds.  last.info records the handle type  *)
(* and the call made before.                                                *)

\* Environment::Environment sets m_magic only: m_openConnections holds what
\* the allocated memory held
OpenConnectionJunk == {-1, 0, 1}

NoHandles == [henv |-> FALSE, hdbc |-> FALSE, hstmt |-> FALSE, m_openConnections |-> 0]

\* the caller holds all three handles, one connection counted
HandlesHeld == [henv |-> TRUE, hdbc |-> TRUE, hstmt |-> TRUE, m_openConnections |-> 1]

\* Environment::createConnection and Environment::closeConnection
Environment_createConnection(e) == [e EXCEPT !.m_openConnections = @ + 1]
Environment_closeConnection(e) == [e EXCEPT !.m_openConnections = @ - 1]

HandleCall(type, ret) ==
    [last EXCEPT !.op = IF type \in {"alloc ENV", "alloc DBC", "alloc STMT"}
                        THEN "SQLAllocHandle" ELSE "SQLFreeHandle",
                 !.ret = ret, !.info = [type |-> type, after |-> last.op],
                 !.live = FALSE, !.sent = <<>>, !.resp = <<>>, !.answered = FALSE]

\* SQLAllocHandle(SQL_HANDLE_ENV)
SQLAllocHandle_ENV ==
    /\ ~Crashed
    /\ ~env.henv /\ ~env.hdbc
    /\ \E junk \in OpenConnectionJunk :
         env' = [NoHandles EXCEPT !.henv = TRUE, !.m_openConnections = junk]
    /\ last' = HandleCall("alloc ENV", "SQL_SUCCESS")
    /\ UNCHANGED <<conn, sock, rx, stmt, mem>>

\* SQLAllocHandle(SQL_HANDLE_DBC)
SQLAllocHandle_DBC ==
    /\ ~Crashed
    /\ env.henv /\ ~env.hdbc
    /\ env' = [Environment_createConnection(env) EXCEPT !.hdbc = TRUE]
    /\ conn' \in Connections
    /\ sock' = NoSocket
    /\ rx' = <<>>
    /\ last' = HandleCall("alloc DBC", "SQL_SUCCESS")
    /\ UNCHANGED <<stmt, mem>>

\* SQLAllocHandle(SQL_HANDLE_STMT)
SQLAllocHandle_STMT ==
    /\ ~Crashed
    /\ env.hdbc /\ ~env.hstmt
    /\ IF Connection_isClosed(conn)
       THEN /\ conn' = [conn EXCEPT !.m_error = E_08003]
            /\ last' = HandleCall("alloc STMT", "SQL_ERROR")
            /\ UNCHANGED <<env, stmt>>
       ELSE /\ conn' = [conn EXCEPT !.m_error = E_NONE]
            /\ stmt' \in Statements
            /\ env' = [env EXCEPT !.hstmt = TRUE]
            /\ last' = HandleCall("alloc STMT", "SQL_SUCCESS")
    /\ UNCHANGED <<sock, rx, mem>>

\* SQLFreeHandle(SQL_HANDLE_STMT)
SQLFreeHandle_STMT ==
    /\ ~Crashed
    /\ env.hstmt
    /\ env' = [env EXCEPT !.hstmt = FALSE]
    /\ last' = HandleCall("free STMT", "SQL_SUCCESS")
    /\ UNCHANGED <<conn, sock, rx, stmt, mem>>

\* The caller turns to another statement of the connection: the one it used
\* before or, when there is none, one that SQLAllocHandle(SQL_HANDLE_STMT)
\* makes now (Connection::appendStatement).
OtherStatement ==
    /\ ~Crashed
    /\ IF conn.m_stats # <<>>
       THEN /\ stmt' = conn.m_stats[1]
            /\ conn' = [conn EXCEPT !.m_stats = <<stmt>>]
            /\ last' = last
       ELSE IF Connection_isClosed(conn)
       THEN /\ conn' = [conn EXCEPT !.m_error = E_08003]
            /\ last' = HandleCall("alloc STMT", "SQL_ERROR")
            /\ UNCHANGED stmt
       ELSE /\ stmt' \in Statements
            /\ conn' = [conn EXCEPT !.m_error = E_NONE, !.m_stats = <<stmt>>]
            /\ last' = HandleCall("alloc STMT", "SQL_SUCCESS")
    /\ UNCHANGED <<env, sock, rx, mem>>

\* SQLFreeHandle(SQL_HANDLE_DBC)
SQLFreeHandle_DBC ==
    /\ ~Crashed
    /\ env.hdbc /\ ~env.hstmt
    /\ conn' = [conn EXCEPT !.m_error = E_NONE]
    /\ IF ~Connection_isClosed(conn)
       THEN /\ last' = HandleCall("free DBC", "SQL_ERROR")
            /\ UNCHANGED env
       ELSE /\ env' = [Environment_closeConnection(env) EXCEPT !.hdbc = FALSE]
            /\ last' = HandleCall("free DBC", "SQL_SUCCESS")
    /\ UNCHANGED <<sock, rx, stmt, mem>>

\* SQLFreeHandle(SQL_HANDLE_ENV)
SQLFreeHandle_ENV ==
    /\ ~Crashed
    /\ env.henv
    /\ IF env.m_openConnections > 0
       THEN /\ last' = HandleCall("free ENV", "SQL_ERROR")
            /\ UNCHANGED env
       ELSE /\ env' = [env EXCEPT !.henv = FALSE]
            /\ last' = HandleCall("free ENV", "SQL_SUCCESS")
    /\ UNCHANGED <<conn, sock, rx, stmt, mem>>

-----------------------------------------------------------------------------
(* Two connected Sockets: what one writes the other reads.  sock is the     *)
(* reading Socket and rx the bytes on their way to it.  last records the    *)
(* step: info holds the value written and, after a read, the value decoded; *)
(* resp the bytes that were waiting; answered that all the written bytes    *)
(* arrived; live that the reading Socket was open when the step began.      *)

WriteOps == {"writeByte", "writeInt", "writeString"}
ReadOps == {"readByte", "readInt", "readString"}

\* the writing side: the bytes w.out of one write reach the reader, followed
\* by the start of the next message (t), or only the first k of them arrive
\* before the stream ends
CanWrite == ~Crashed /\ sock.m_socket # 0 /\ last.op \notin WriteOps

Wire(op, x, w) ==
    \E t \in Trailers, k \in 0..Len(w.out) :
         /\ rx' = IF k = Len(w.out) THEN w.out \o t ELSE SubSeq(w.out, 1, k)
         /\ UNCHANGED env
         /\ last' = [NoCall EXCEPT !.op = op, !.info = <<x>>, !.live = TRUE,
                                   !.sent = w.out, !.answered = (k = Len(w.out))]
         /\ UNCHANGED <<conn, sock, stmt, mem>>

\* the reading side: r is what the read returned and left of the Socket
Decoded(op, r) ==
    /\ sock' = [sock EXCEPT !.m_socket = r.sk.m_socket]
    /\ rx' = r.sk.in
    /\ UNCHANGED env
    /\ last' = [last EXCEPT !.op = op, !.ret = IF r.sk.crashed THEN "CRASH" ELSE "value",
                            !.info = <<last.info[1], r.v>>,
                            !.live = (sock.m_socket # 0), !.resp = rx,
                            !.answered = (last.answered /\ last.op \in WriteOps)]
    /\ UNCHANGED <<conn, stmt, mem>>

\* a read is made of what the matching write sent, or on a dead Socket
Readable(wop) == ~Crashed /\ (last.op = wop \/ (sock.m_socket = 0 /\ last.op # "none"))

Reader(junk) ==
    [m_socket |-> sock.m_socket, in |-> rx, out |-> <<>>, tx |-> TRUE,
     junk |-> junk, crashed |-> FALSE]

Sender == NewSocket(TRUE, <<>>, TRUE, 0)

LoopWriteByte(bytes) ==
    /\ CanWrite
    /\ \E x \in bytes : Wire("writeByte", x, Socket_writeByte(Sender, x))
LoopWriteInt(ints) ==
    /\ CanWrite
    /\ \E x \in ints : Wire("writeInt", x, Socket_writeInt(Sender, x))
LoopWriteString(strs) ==
    /\ CanWrite
    /\ \E x \in strs : Wire("writeString", x, Socket_writeString(Sender, x))

LoopReadByte ==
    /\ Readable("writeByte")
    /\ \E j \in JunkBytes : Decoded("readByte", Socket_readByte(Reader(j)))
LoopReadInt ==
    /\ Readable("writeInt")
    /\ \E j \in JunkBytes : Decoded("readInt", Socket_readInt(Reader(j)))
LoopReadString ==
    /\ Readable("writeString")
    /\ \E j \in JunkBytes : Decoded("readString", Socket_readString(Reader(j)))

-----------------------------------------------------------------------------
(* Caller inputs and the specifications *)

ColBinding(TargetType, BufferLength, ptr, ind) ==
    [TargetType |-> TargetType, BufferLength |-> BufferLength, ptr |-> ptr, ind |-> ind]

ParamBinding(ValueType, ParameterType, ColumnSize, ptr, ind) ==
    [InputOutputType |-> SQL_PARAM_INPUT, ValueType |-> ValueType,
     ParameterType |-> ParameterType, ColumnSize |-> ColumnSize,
     ptr |-> ptr, ind |-> ind]

\* the caller's parameter variables: a 32-bit 42 and the text "Ada"
ParamCells ==
    <<[data |-> StoreInt32(FreshCell.data, 42), ind |-> 4],
      [data |-> Poke(FreshCell.data, 0, StrAda \o <<0>>), ind |-> SQL_NTS]>>

Init ==
    /\ env = HandlesHeld
    /\ conn \in Connections
    /\ sock = NoSocket
    /\ rx = <<>>
    /\ stmt \in Statements
    /\ mem = [col |-> [i \in 1..MaxCols |-> FreshCell],
              par |-> [i \in 1..MaxParams |-> ParamCells[((i - 1) % 2) + 1]],
              get |-> FreshCell,
              rowStatus |-> IndFill, rowsFetched |-> IndFill]
    /\ last = NoCall

ParamBindings ==
    {ParamBinding(SQL_C_DEFAULT, SQL_INTEGER, 0, TRUE, FALSE),
     ParamBinding(SQL_C_CHAR, SQL_VARCHAR, 3, TRUE, TRUE)}

Shapes == {<<>>, <<SQL_INTEGER>>, <<SQL_INTEGER, SQL_VARCHAR>>}

\* the server every session but those of SpecConn connects to
ServerUrl == {Url(TRUE, 14)}

\* what the server answers in the statement life cycle
PrepareOutcomes == Outcomes(PrepareAnswers(0), {0})
ExecuteOutcomes == Outcomes(ExecuteAnswers(Shapes), {0})
DirectOutcomes == Outcomes(DirectAnswers(Shapes, 0), {0})
MetaOutcomes == Outcomes(ResultSets(Shapes), {0})

\* the statement life cycle on one session: queries without parameters
Next ==
    \/ SQLConnect(ServerUrl, {}, FALSE)
    \/ SQLPrepare(PrepareOutcomes)
    \/ SQLExecute(ExecuteOutcomes)
    \/ SQLExecDirect(DirectOutcomes, TRUE)
    \/ SQLMetaQuery(MetaOutcomes)
    \/ SQLFetch({42}, {StrAda}, {0})
    \/ SQLCloseCursor

Spec == Init /\ [][Next]_vars

ParamPrepareOutcomes == Outcomes(PrepareAnswers(MaxParams), {0, 1, 3})
ParamExecuteOutcomes == Outcomes({<<CH_E>>, <<CH_U>> \o EncInt(3)}, {0, 1, 3})

\* prepared statements and their parameters
NextParam ==
    \/ SQLConnect(ServerUrl, {}, FALSE)
    \/ SQLPrepare(ParamPrepareOutcomes)
    \/ SQLBindParameter(ParamBindings)
    \/ SQLExecute(ParamExecuteOutcomes)

SpecParam == Init /\ [][NextParam]_vars

\* connecting, transactions, disconnecting
NextConn ==
    \/ SQLConnect(Urls, {0}, TRUE)
    \/ SQLSetConnectAttr
    \/ SQLEndTran
    \/ SQLDisconnect

SpecConn == Init /\ [][NextConn]_vars

\* fetching rows into bound columns
ColBindings ==
    {ColBinding(SQL_C_CHAR, DataSize, TRUE, TRUE),
     ColBinding(SQL_C_SLONG, 0, TRUE, TRUE),
     ColBinding(SQL_C_SSHORT, 0, TRUE, TRUE),
     ColBinding(SQL_C_LONG, 0, TRUE, TRUE)}

BindShapes == {<<SQL_INTEGER>>, <<SQL_VARCHAR>>, <<SQL_INTEGER, SQL_VARCHAR>>}

\* the SQLGetData targets: text, the column's default type, a 32-bit
\* integer, and text without an indicator
GetTargets ==
    {ColBinding(SQL_C_CHAR, DataSize, TRUE, TRUE),
     ColBinding(SQL_C_DEFAULT, DataSize, TRUE, TRUE),
     ColBinding(SQL_C_LONG, 0, TRUE, TRUE),
     ColBinding(SQL_C_CHAR, DataSize, TRUE, FALSE)}

\* a query answered with a result set of one of the shapes
QueryOutcomes == Outcomes({<<CH_R>> \o rs : rs \in ResultSets(BindShapes)}, {})

NextBind ==
    \/ SQLConnect(ServerUrl, {}, FALSE)
    \/ SQLExecDirect(QueryOutcomes, FALSE)
    \/ SQLBindCol(ColBindings, FALSE)
    \/ SQLFetch(IntVals, StrVals, {})

SpecBind == Init /\ [][NextBind]_vars

\* a text buffer bound without a length/indicator pointer
TextWithoutIndicator == {ColBinding(SQL_C_CHAR, DataSize, TRUE, FALSE)}

\* one query, its rows fetched and read column by column with SQLGetData,
\* columns bound or not
NextGet ==
    \/ SQLConnect(ServerUrl, {}, FALSE)
    \/ SQLExecDirect(QueryOutcomes, FALSE)
    \/ SQLBindCol(TextWithoutIndicator, FALSE)
    \/ SQLFetch({42}, StrVals, {})
    \/ SQLGetData(GetTargets)

SpecGet == Init /\ [][NextGet]_vars

\* one binding and one answer of each kind
DescPrepareOutcomes == Outcomes(PrepareAnswers(0), {})
DescParamBindings == {ParamBinding(SQL_C_DEFAULT, SQL_INTEGER, 0, TRUE, FALSE)}
DescColBindings == {ColBinding(SQL_C_CHAR, DataSize, TRUE, TRUE)}
DescExecuteOutcomes == Outcomes({<<CH_R>> \o rs : rs \in ResultSets({<<SQL_VARCHAR>>})}, {})
DescDirectOutcomes == Outcomes({<<CH_E>>, <<CH_U>> \o EncInt(3)}, {})
DescMetaOutcomes == Outcomes(ResultSets({<<SQL_VARCHAR>>}), {})

\* every call that touches the four descriptors of one statement, in any
\* order
NextDesc ==
    \/ SQLConnect(ServerUrl, {}, FALSE)
    \/ SQLPrepare(DescPrepareOutcomes)
    \/ SQLBindParameter(DescParamBindings)
    \/ SQLBindCol(DescColBindings, FALSE)
    \/ SQLExecute(DescExecuteOutcomes)
    \/ SQLExecDirect(DescDirectOutcomes, FALSE)
    \/ SQLMetaQuery(DescMetaOutcomes)
    \/ SQLFetch({42}, {StrAda}, {})
    \/ SQLCloseCursor

SpecDesc == Init /\ [][NextDesc]_vars

\* the codec on its own: values of every shape written and read back
MaxStr == 3
ByteSamples == {0, 127, 128, 255}
IntSamples ==
    {SignedChar(a) * Two24 + b * Two16 + c * Two8 + d : a, b, c, d \in ByteSamples}
StrSamples ==
    {str : str \in UNION {[1..n -> {CH_A, 128, 255}] : n \in 0..MaxStr}}

ByteValues == {b : b \in ByteSamples \cup {CH_O, CH_E}}

InitCodec ==
    /\ env = HandlesHeld
    /\ conn = NewConnection(TRUE)
    /\ sock = [obj |-> TRUE, m_socket |-> 1]
    /\ rx = <<>>
    /\ stmt = NewStatement("S_CLOSED")
    /\ mem = [col |-> [i \in 1..MaxCols |-> FreshCell],
              par |-> [i \in 1..MaxParams |-> ParamCells[((i - 1) % 2) + 1]],
              get |-> FreshCell,
              rowStatus |-> IndFill, rowsFetched |-> IndFill]
    /\ last = NoCall

NextCodec ==
    \/ LoopWriteByte(ByteValues)
    \/ LoopWriteInt(IntSamples)
    \/ LoopWriteString(StrSamples)
    \/ LoopReadByte
    \/ LoopReadInt
    \/ LoopReadString

SpecCodec == InitCodec /\ [][NextCodec]_vars

\* the life of the handles: allocate, connect, disconnect, free
InitHandle ==
    /\ env = NoHandles
    /\ conn = NewConnection(TRUE)
    /\ sock = NoSocket
    /\ rx = <<>>
    /\ stmt = NewStatement("S_CLOSED")
    /\ mem = [col |-> [i \in 1..MaxCols |-> FreshCell],
              par |-> [i \in 1..MaxParams |-> ParamCells[((i - 1) % 2) + 1]],
              get |-> FreshCell,
              rowStatus |-> IndFill, rowsFetched |-> IndFill]
    /\ last = NoCall

\* SQLConnect and SQLDisconnect with the connection handle the caller holds
ConnectHeld == env.hdbc /\ SQLConnect(ServerUrl, {0}, FALSE)
DisconnectHeld == env.hdbc /\ sock.obj /\ SQLDisconnect

NextHandle ==
    \/ SQLAllocHandle_ENV
    \/ SQLAllocHandle_DBC
    \/ ConnectHeld
    \/ SQLAllocHandle_STMT
    \/ SQLFreeHandle_STMT
    \/ DisconnectHeld
    \/ SQLFreeHandle_DBC
    \/ SQLFreeHandle_ENV

SpecHandle == InitHandle /\ [][NextHandle]_vars

\* fetching with the row-status and rows-fetched outputs registered
NextAttr ==
    \/ SQLConnect(ServerUrl, {}, FALSE)
    \/ SQLExecDirect(QueryOutcomes, FALSE)
    \/ SQLSetStmtAttr
    \/ SQLFetch({42}, {StrAda}, {})

SpecAttr == Init /\ [][NextAttr]_vars

\* parameters of every send type: a 32-bit integer, the 16-bit integer type
\* of the driver's own test program, a character buffer
SendBindings ==
    {ParamBinding(SQL_C_LONG, SQL_INTEGER, 0, TRUE, FALSE),
     ParamBinding(SQL_C_SSHORT, SQL_INTEGER, 0, TRUE, TRUE),
     ParamBinding(SQL_C_CHAR, SQL_CHAR, 3, TRUE, TRUE)}
SendPrepareOutcomes == Outcomes(PrepareAnswers(MaxParams), {})
SendExecuteOutcomes == Outcomes({<<CH_E>>, <<CH_U>> \o EncInt(3)}, {})

\* prepared statements executed with parameters of every send type
NextSend ==
    \/ SQLConnect(ServerUrl, {}, FALSE)
    \/ SQLPrepare(SendPrepareOutcomes)
    \/ SQLBindParameter(SendBindings)
    \/ SQLExecute(SendExecuteOutcomes)

SpecSend == Init /\ [][NextSend]_vars

\* the two connect entry points, on targets of every shape, with the stream
\* established or not
NoCuts == {}
NextOpen ==
    \/ SQLConnect(Urls, NoCuts, TRUE)
    \/ SQLDriverConnect(Urls, NoCuts, TRUE)
    \/ SQLDisconnect

SpecOpen == Init /\ [][NextOpen]_vars

\* metadata queries and ordinary queries on one statement, their rows fetched
MetaQueryOutcomes == Outcomes(ResultSets(BindShapes), {})

NextMeta ==
    \/ SQLConnect(ServerUrl, {}, FALSE)
    \/ SQLMetaQuery(MetaQueryOutcomes)
    \/ SQLCatalogQuery(MetaQueryOutcomes)
    \/ SQLExecDirect(QueryOutcomes, TRUE)
    \/ SQLBindCol(DescColBindings, FALSE)
    \/ SQLFetch({42}, {StrAda}, {})

SpecMeta == Init /\ [][NextMeta]_vars

\* two statements of one connection, the caller's whole calls on them
\* interleaved
ShareShapes == {<<SQL_INTEGER>>, <<SQL_INTEGER, SQL_VARCHAR>>}
ShareDirectOutcomes == Outcomes(DirectAnswers(ShareShapes, 0), {})
ShareMetaOutcomes == Outcomes(ResultSets(ShareShapes), {})

NextShare ==
    \/ SQLConnect(ServerUrl, {}, FALSE)
    \/ OtherStatement
    \/ SQLExecDirect(ShareDirectOutcomes, FALSE)
    \/ SQLMetaQuery(ShareMetaOutcomes)
    \/ SQLFetch({42}, {StrAda}, {})

SpecShare == Init /\ [][NextShare]_vars

\* a statement handle used for queries and fetches, freed, and allocated anew
ExecDirectHeld == env.hstmt /\ SQLExecDirect(QueryOutcomes, TRUE)
FetchHeld == env.hstmt /\ SQLFetch({42}, {StrAda}, {})
CloseCursorHeld == env.hstmt /\ SQLCloseCursor

NextFree ==
    \/ SQLConnect(ServerUrl, {}, FALSE)
    \/ ExecDirectHeld
    \/ FetchHeld
    \/ CloseCursorHeld
    \/ SQLFreeHandle_STMT
    \/ SQLAllocHandle_STMT

SpecFree == Init /\ [][NextFree]_vars

\* calls that fail and calls that succeed on a connection and a statement,
\* and the diagnostics asked of both
NextDiag ==
    \/ SQLConnect(Urls, {}, FALSE)
    \/ SQLPrepare(DescPrepareOutcomes)
    \/ SQLExecute(SendExecuteOutcomes)
    \/ SQLCancel
    \/ SQLGetDiagRec

SpecDiag == Init /\ [][NextDiag]_vars

\* parameters of the supported send types, and the answers to an
\* execute-direct request for a text with at most one parameter
DirectBindings ==
    {ParamBinding(SQL_C_LONG, SQL_INTEGER, 0, TRUE, FALSE),
     ParamBinding(SQL_C_CHAR, SQL_CHAR, 3, TRUE, TRUE)}
DirectShapes == {<<>>, <<SQL_INTEGER>>}
DirectParamOutcomes == Outcomes(DirectAnswers(DirectShapes, 1), {})

\* texts with parameters executed directly
NextDirect ==
    \/ SQLConnect(ServerUrl, {}, FALSE)
    \/ SQLBindParameter(DirectBindings)
    \/ SQLExecDirect(DirectParamOutcomes, TRUE)

SpecDirect == Init /\ [][NextDirect]_vars

-----------------------------------------------------------------------------
(* Properties *)

\* the call that was just made got a whole answer whose first byte is b
AnsweredWith(op, b) ==
    last.op = op /\ last.answered /\ last.resp # <<>> /\ Head(last.resp) = b

ExecuteCalls == {"SQLExecute", "SQLExecDirect"}

\* C1: after Connection::open has completed the handshake the state is OPEN
\* if and only if the status byte was 'O'; for any other status the state is
\* CLOSED and a diagnostic is recorded on the connection.
C1_StateFollowsStatus ==
    (last.op = "SQLConnect" /\ last.info.handshake) =>
        /\ conn.m_state = (IF last.info.status = CH_O THEN "C_OPEN" ELSE "C_CLOSED")
        /\ (last.info.status # CH_O => conn.m_error # E_NONE)

\* C2: on a session that can send, a setAutoCommit call whose argument equals
\* the current value emits nothing and leaves the flag, and a call whose
\* argument differs emits exactly 'A' and '1' or '0' and updates the flag.
C2_AutoCommitToggle ==
    (last.op = "SQLSetConnectAttr" /\ last.ret = "SQL_SUCCESS") =>
        IF last.info.flag = last.info.was
        THEN last.sent = <<>> /\ conn.m_autoCommit = last.info.was
        ELSE /\ conn.m_autoCommit = last.info.flag
             /\ last.live => last.sent = <<CH_A, IF last.info.flag THEN CH_1 ELSE CH_0>>

C2_Witness ==
    /\ last.op = "SQLSetConnectAttr" /\ last.ret = "SQL_SUCCESS" /\ last.live
    /\ last.info.was /\ ~last.info.flag
    /\ last.sent = <<CH_A, CH_0>>
    /\ ~conn.m_autoCommit

\* C3: when prepare is answered 'E' the statement state becomes CLOSED and
\* its diagnostic the syntax-error class 42000, and an SQLExecute that follows
\* (no other prepare in between; the session can send) fails and writes no
\* byte to the session.
C3_RejectedPrepareFailsFast ==
    /\ AnsweredWith("SQLPrepare", CH_E) =>
           stmt.m_state = "S_CLOSED" /\ stmt.m_error = E_42000
    /\ (last.op = "SQLExecute" /\ last.rejected /\ last.live) =>
           last.ret = "SQL_ERROR" /\ last.sent = <<>>

\* C4: when execute-direct is answered 'U' and count c, the update count is c
\* and there is no result set, and every fetch that follows (until the next
\* execute) returns no data and writes nothing.
C4_UpdateStatement ==
    /\ AnsweredWith("SQLExecDirect", CH_U) =>
           /\ stmt.m_updateCount = IntOfBytes(SubSeq(last.resp, 2, 5))
           /\ ~stmt.m_hasResultSet
    /\ (last.op = "SQLFetch" /\ last.update) =>
           last.ret = "SQL_NO_DATA" /\ last.sent = <<>>

C4_Witness ==
    /\ last.op = "SQLFetch" /\ last.update /\ last.live
    /\ last.ret = "SQL_NO_DATA"
    /\ stmt.m_updateCount = 3

\* the columns a successful fetch has just stored: index, implementation
\* record, application record, caller cell
RowDelivered == last.op = "SQLFetch" /\ last.ret = "SQL_SUCCESS"
Columns == 1..(IF stmt.m_columnCount < MaxCols THEN stmt.m_columnCount ELSE MaxCols)
Imp(i) == stmt.m_impRow.m_records[i]
App(i) == stmt.m_appRow.m_records[i]

\* C5: after a fetch answered '1', a non-null INTEGER value v bound to a
\* 32-bit integer target is stored as v, and a non-null VARCHAR value s bound
\* to a text target of sufficient capacity is stored as s with a terminator,
\* the indicator holding the length of s.
C5_BoundTargetsHoldValues ==
    RowDelivered =>
        \A i \in Columns :
            /\ ( /\ Imp(i).m_sqlDataType = SQL_INTEGER /\ ~Imp(i).m_wasNull
                 /\ App(i).m_pointer # 0
                 /\ App(i).m_cDataType \in {SQL_C_LONG, SQL_C_SLONG, SQL_C_ULONG} )
               => LoadInt32(mem.col[i].data) = Imp(i).m_dataInt
            /\ ( /\ Imp(i).m_sqlDataType = SQL_VARCHAR /\ ~Imp(i).m_wasNull
                 /\ App(i).m_pointer # 0 /\ App(i).m_statusPointer # 0
                 /\ App(i).m_cDataType = SQL_C_CHAR
                 /\ App(i).m_targetBufferLength > Len(Imp(i).m_dataString) )
               => /\ CStr(mem.col[i].data) = Imp(i).m_dataString
                  /\ mem.col[i].ind = Len(Imp(i).m_dataString)

C7_NullPropagation ==
    [][ (last'.op = "SQLFetch" /\ last'.ret = "SQL_SUCCESS") =>
            \A i \in 1..MaxCols :
                ( /\ i <= stmt'.m_columnCount
                  /\ stmt'.m_impRow.m_records[i].m_wasNull
                  /\ stmt'.m_appRow.m_records[i].m_statusPointer # 0 )
                => /\ mem'.col[i].ind = SQL_NULL_DATA
                   /\ mem'.col[i].data = mem.col[i].data ]_vars

C7_Witness ==
    /\ RowDelivered
    /\ 1 \in Columns
    /\ Imp(1).m_wasNull
    /\ App(1).m_statusPointer # 0
    /\ App(1).m_cDataType = SQL_C_SSHORT
    /\ mem.col[1].ind = SQL_NULL_DATA
    /\ mem.col[1].data # FreshCell.data

\* C8: a fetched text longer than the bound buffer's capacity is stored as
\* capacity-1 payload bytes and a terminator, no byte at offset >= capacity
\* is written, and the indicator holds the untruncated length.
C8_Truncation ==
    RowDelivered =>
        \A i \in Columns :
            LET s   == DescriptorRecord_getString(Imp(i))
                cap == App(i).m_targetBufferLength
            IN  ( /\ ~Imp(i).m_wasNull
                  /\ App(i).m_cDataType = SQL_C_CHAR
                  /\ App(i).m_pointer # 0 /\ App(i).m_statusPointer # 0
                  /\ cap > 0 /\ cap <= DataSize /\ Len(s) > cap )
                => /\ SubSeq(mem.col[i].data, 1, cap - 1) = SubSeq(s, 1, cap - 1)
                   /\ mem.col[i].data[cap] = 0
                   /\ \A k \in (cap + 1)..(DataSize + 1) : mem.col[i].data[k] = MemFill
                   /\ mem.col[i].ind = Len(s)

\* the column count a whole answer to an execute-type call reports, -1 if
\* the answer reports no result set
ReportedColumns ==
    IF last.op \in MetaCalls THEN IntOfBytes(SubSeq(last.resp, 5, 8))
    ELSE IF Head(last.resp) = CH_R THEN IntOfBytes(SubSeq(last.resp, 6, 9))
    ELSE IF Head(last.resp) = CH_O /\ last.resp[10] = CH_R
         THEN IntOfBytes(SubSeq(last.resp, 15, 18))
    ELSE -1

\* C9: after an execute (direct, prepared or metadata query) whose answer
\* reports a result set with N columns, the implementation row descriptor
\* and the application row descriptor hold N records each.
C9_RowRecordCount ==
    (last.op \in ExecuteCalls \cup MetaCalls /\ last.answered /\ ReportedColumns >= 0) =>
        /\ Descriptor_getRecordCount(stmt.m_impRow) = ReportedColumns
        /\ Descriptor_getRecordCount(stmt.m_appRow) = ReportedColumns

C9_Witness ==
    /\ last.op = "SQLTables" /\ last.answered
    /\ ReportedColumns = 2
    /\ Descriptor_getRecordCount(stmt.m_appRow) = 2

\* C10: after a prepare answered 'O' with parameter count N, the
\* implementation parameter descriptor and the application parameter
\* descriptor hold N records each.
C10_ParamRecordCount ==
    AnsweredWith("SQLPrepare", CH_O) =>
        /\ Descriptor_getRecordCount(stmt.m_impParam) = IntOfBytes(SubSeq(last.resp, 6, 9))
        /\ Descriptor_getRecordCount(stmt.m_appParam) = IntOfBytes(SubSeq(last.resp, 6, 9))

\* the calls that address a column by number, and the 0-based index the
\* last such call was given
ColumnCalls == {"SQLBindCol", "SQLGetData"}
ColumnIndex == (last.info[1] - 1) % Two16

\* C11: a column-addressed call (SQLBindCol, SQLGetData) whose 0-based index
\* is at or beyond the record count N of the row descriptors (column number
\* above N, or column number 0) returns SQL_ERROR; it does not go on to use
\* a record.
C11_ColumnIndexChecked ==
    ( /\ last.op \in ColumnCalls
      /\ ColumnIndex >= Descriptor_getRecordCount(stmt.m_impRow)
      /\ ColumnIndex >= Descriptor_getRecordCount(stmt.m_appRow) )
    => last.ret = "SQL_ERROR"

\* C12: in every state reached by prepare, bind parameter, bind column,
\* execute, metadata query, fetch and close cursor on one statement, the
\* implementation and application row descriptors hold equally many
\* records, and so do the implementation and application parameter
\* descriptors.
C12_DescriptorPairs ==
    /\ Descriptor_getRecordCount(stmt.m_impRow) = Descriptor_getRecordCount(stmt.m_appRow)
    /\ Descriptor_getRecordCount(stmt.m_impParam) = Descriptor_getRecordCount(stmt.m_appParam)

C12_Witness ==
    /\ last.op = "SQLFetch" /\ last.answered
    /\ Descriptor_getRecordCount(stmt.m_appRow) = 1
    /\ Descriptor_getRecordCount(stmt.m_appParam) = 2

\* C13: a 32-bit integer written by writeInt and read by readInt comes back
\* unchanged, negative values and bytes with the high bit set included; a
\* string without a 0 byte written by writeString and read by readString
\* comes back unchanged, the empty string included, and readString takes
\* exactly 4 + length bytes off the stream.
C13_RoundTrip ==
    /\ (last.op = "readInt" /\ last.answered) =>
           /\ last.info[2] = last.info[1]
           /\ Len(last.resp) - Len(rx) = 4
    /\ (last.op = "readString" /\ last.answered) =>
           /\ last.info[2] = last.info[1]
           /\ Len(last.resp) - Len(rx) = 4 + Len(last.info[1])

C13_Witness ==
    /\ last.op = "readString" /\ last.answered
    /\ last.info[1] = <<255, CH_A, 128>>
    /\ rx = <<CH_O>>

\* what a read on a dead Socket returns
ReadFailure(op) == IF op = "readString" THEN <<>> ELSE -1

\* C16: a read (readByte, readInt, readString) that meets the end of the
\* stream, or is made after one that did, leaves the Socket dead and returns
\* the failure value, not a value put together from a buffer that was
\* filled in part or not at all.
C16_EndOfStreamFails ==
    (last.op \in ReadOps /\ ~last.answered) =>
        /\ sock.m_socket = 0
        /\ last.info[2] = ReadFailure(last.op)

\* C14: after SQLDisconnect on a connection that SQLConnect gave a Socket,
\* the Socket is closed and the connection state is CLOSED.
C14_CloseCloses ==
    (last.op = "SQLDisconnect" /\ sock.obj) =>
        /\ Connection_isClosed(conn)
        /\ sock.m_socket = 0

\* C15: in the life cycle allocate environment, allocate connection,
\* connect, allocate and free a statement, disconnect, free connection, free
\* environment, the SQLFreeHandle of the connection that follows the
\* SQLDisconnect succeeds and leaves the environment with no open connection
\* (so that freeing the environment can succeed).
C15_LifecycleSucceeds ==
    (last.op = "SQLFreeHandle" /\ last.info.type = "free DBC"
        /\ last.info.after = "SQLDisconnect") =>
       /\ last.ret = "SQL_SUCCESS"
       /\ env.m_openConnections = 0

\* C17: a prepare, execute-direct or execute-prepared call made when the
\* connection's Socket is already dead returns an error, does not leave the
\* statement in state PREPARED or EXECUTED, and leaves the Socket dead.
C17_DeadSessionFails ==
    [][(sock.obj /\ sock.m_socket = 0
          /\ last'.op \in {"SQLPrepare", "SQLExecute", "SQLExecDirect"}) =>
         /\ last'.ret = "SQL_ERROR"
         /\ stmt'.m_state \notin {"S_PREPARED", "S_EXECUTED"}
         /\ sock'.m_socket = 0]_vars

\* C18: an SQLCloseCursor made before any other call, right after an execute
\* that was answered 'U' or 'E', or right after another SQLCloseCursor sends
\* nothing; after every SQLCloseCursor the result-set id is -1 and the
\* statement state is CLOSED.
C18_CloseCursorOnlyWhenOpen ==
    [][(last'.op = "SQLCloseCursor" /\ last'.ret = "SQL_SUCCESS") =>
         /\ ( \/ last.op \in {"none", "SQLCloseCursor"}
              \/ AnsweredWith("SQLExecute", CH_U) \/ AnsweredWith("SQLExecute", CH_E)
              \/ AnsweredWith("SQLExecDirect", CH_U) \/ AnsweredWith("SQLExecDirect", CH_E) )
            => last'.sent = <<>>
         /\ stmt'.m_resultSetId = -1
         /\ stmt'.m_state = "S_CLOSED"]_vars

\* C19: an SQLFetch answered 'E' delivers no row (it returns SQL_NO_DATA and
\* writes nothing to the caller's memory), leaves the statement in state
\* CLOSED, and leaves it without a result set to fetch from.
C19_FetchErrorCloses ==
    [][(last'.op = "SQLFetch" /\ last'.answered /\ last'.resp = <<CH_E>>) =>
         /\ last'.ret = "SQL_NO_DATA"
         /\ mem' = mem
         /\ stmt'.m_state = "S_CLOSED"
         /\ ~stmt'.m_hasResultSet]_vars

\* C20: with the row-status output and the rows-fetched output registered
\* through SQLSetStmtAttr, after an SQLFetch answered '1' the row-status
\* output holds SQL_ROW_SUCCESS and the rows-fetched output 1; after an
\* SQLFetch answered by another byte that is not 'E' they hold SQL_ROW_NOROW
\* and 0.
C20_RowOutputs ==
    ( /\ last.op = "SQLFetch" /\ last.answered /\ Head(last.resp) # CH_E
      /\ stmt.m_appRow.m_statusPointer # 0
      /\ stmt.m_impRow.m_rowsProcessedPointer # 0 ) =>
        IF Head(last.resp) = CH_1
        THEN mem.rowStatus = SQL_ROW_SUCCESS /\ mem.rowsFetched = 1
        ELSE mem.rowStatus = SQL_ROW_NOROW /\ mem.rowsFetched = 0

\* the length of the parameter value that starts b, as sendParameterValue
\* writes values: a null marker, the integer type and an integer, or the
\* varchar type and a string; -1 if b starts with no such value
WireValueLength(b) ==
    LET Typed(t) ==
            IF t = 0 THEN 4
            ELSE IF t = SQL_INTEGER THEN (IF Len(b) >= 8 THEN 8 ELSE -1)
            ELSE IF t = SQL_VARCHAR /\ Len(b) >= 8
            THEN LET Sized(n) == IF n >= 0 /\ Len(b) >= 8 + n THEN 8 + n ELSE -1
                 IN  Sized(IntOfBytes(SubSeq(b, 5, 8)))
            ELSE -1
    IN  IF Len(b) < 4 THEN -1 ELSE Typed(IntOfBytes(SubSeq(b, 1, 4)))

\* b is the blocks of parameters i..n-1, each '1', the ordinal and one value,
\* and then the sentinel '0'
RECURSIVE ParameterBlocks(_, _, _)
ParameterBlocks(b, i, n) ==
    IF i >= n THEN b = <<CH_0>>
    ELSE /\ Len(b) >= 5
         /\ b[1] = CH_1
         /\ IntOfBytes(SubSeq(b, 2, 5)) = i
         /\ LET Valued(rest, len) ==
                    len >= 0 /\ ParameterBlocks(SubSeq(rest, len + 1, Len(rest)), i + 1, n)
                Rest(rest) == Valued(rest, WireValueLength(rest))
            IN  Rest(SubSeq(b, 6, Len(b)))

\* b is an execute-prepared request for statement id with n parameters
ExecutePreparedRequest(b, id, n) ==
    /\ Len(b) >= 5
    /\ b[1] = CH_Q
    /\ IntOfBytes(SubSeq(b, 2, 5)) = id
    /\ ParameterBlocks(SubSeq(b, 6, Len(b)), 0, n)

\* SQLExecute has returned on a session that took every byte
Executed == last.op = "SQLExecute" /\ last.ret # "CRASH" /\ last.live

\* C21: an execute-prepared request is 'Q', the prepared id, one block per
\* declared parameter in ordinal order, each '1', the ordinal and one
\* complete value, and then one '0'; the answer is read after the '0'.
C21_RequestFormat ==
    Executed =>
        /\ ExecutePreparedRequest(last.sent, stmt.m_preparedId, stmt.m_parameterCount)
        /\ last.resp # <<>> => last.sent[Len(last.sent)] = CH_0

\* the C types sendParameterValue has a case for
SendTypes == {SQL_C_SHORT, SQL_C_LONG, SQL_C_CHAR}

\* a declared parameter is bound to a caller variable that is not null, with
\* a C type that sendParameterValue has no case for
UnsupportedBound ==
    \E i \in 0..(stmt.m_parameterCount - 1) :
        /\ InRange(stmt.m_appParam, i)
        /\ LET Bound(rec) ==
                   /\ rec.m_pointer # 0
                   /\ rec.m_cDataType \notin SendTypes
                   /\ ~(rec.m_statusPointer # 0 /\ mem.par[i + 1].ind = SQL_NULL_DATA)
            IN  Bound(Descriptor_getRecord(stmt.m_appParam, i))

\* C22: executing with a bound parameter of an unsupported C type returns an
\* error, and no parameter block without its type tag and value is sent.
C22_UnsupportedTypeFails ==
    (Executed /\ UnsupportedBound) =>
        /\ last.ret = "SQL_ERROR"
        /\ \/ last.sent = <<>>
           \/ ExecutePreparedRequest(last.sent, stmt.m_preparedId, stmt.m_parameterCount)

\* SQLExecDirect has returned on a session that took every byte, and the
\* server answered the execute request with 'O'
DirectPrepared ==
    AnsweredWith("SQLExecDirect", CH_O) /\ last.live /\ last.ret # "CRASH"

\* what the server sent after 'O': the prepared id, the parameter count and
\* the answer to the execute-prepared request
PreparedIdSent == IntOfBytes(SubSeq(last.resp, 2, 5))
ParameterCountSent == IntOfBytes(SubSeq(last.resp, 6, 9))
SecondAnswer == SubSeq(last.resp, 10, Len(last.resp))

\* the bytes of the execute request for text sql
ExecuteRequest(sql) == <<CH_E>> \o EncStr(sql)

\* C23: when execute-direct is answered 'O' the client reads the prepared id
\* and the parameter count, makes exactly one execute-prepared exchange with
\* them before it returns, and the call ends as that exchange ends.
C23_DirectContinues ==
    DirectPrepared =>
        /\ stmt.m_preparedId = PreparedIdSent
        /\ stmt.m_parameterCount = ParameterCountSent
        /\ SubSeq(last.sent, 1, Len(ExecuteRequest(last.info))) = ExecuteRequest(last.info)
        /\ ExecutePreparedRequest(
               SubSeq(last.sent, Len(ExecuteRequest(last.info)) + 1, Len(last.sent)),
               PreparedIdSent, ParameterCountSent)
        /\ (last.ret = "SQL_ERROR") = (Head(SecondAnswer) = CH_E)
        /\ Head(SecondAnswer) = CH_E =>
               stmt.m_state = "S_CLOSED" /\ stmt.m_error = E_42000
        /\ Head(SecondAnswer) = CH_U =>
               /\ stmt.m_state = "S_EXECUTED" /\ ~stmt.m_hasResultSet
               /\ stmt.m_updateCount = IntOfBytes(SubSeq(SecondAnswer, 2, 5))
        /\ Head(SecondAnswer) = CH_R =>
               /\ stmt.m_state = "S_EXECUTED" /\ stmt.m_hasResultSet
               /\ stmt.m_resultSetId = IntOfBytes(SubSeq(SecondAnswer, 2, 5))
               /\ stmt.m_columnCount = IntOfBytes(SubSeq(SecondAnswer, 6, 9))

\* an execute-direct of a text with one parameter, bound to the caller's
\* 32-bit 42, was answered 'O' and then 'U'
C23_Witness ==
    /\ DirectPrepared
    /\ ParameterCountSent = 1
    /\ Head(SecondAnswer) = CH_U
    /\ last.ret = "SQL_SUCCESS"
    /\ stmt.m_updateCount = 3
    /\ last.sent = ExecuteRequest(last.info) \o <<CH_Q>> \o EncInt(5) \o <<CH_1>>
                       \o EncInt(0) \o EncInt(SQL_INTEGER) \o EncInt(42) \o <<CH_0>>

\* the calls of the model on a connection handle and on a statement handle
\* (SQLGetDiagRec apart)
ConnectionCalls == {"SQLConnect", "SQLSetConnectAttr", "SQLEndTran", "SQLDisconnect"}
StatementCalls ==
    {"SQLPrepare", "SQLBindParameter", "SQLExecute", "SQLExecDirect", "SQLTables",
     "SQLGetTypeInfo", "SQLBindCol", "SQLGetData", "SQLFetch", "SQLSetStmtAttr",
     "SQLCloseCursor", "SQLCancel"}
CallsOn(HandleType) ==
    IF HandleType = "SQL_HANDLE_DBC" THEN ConnectionCalls ELSE StatementCalls

\* the first diagnostic record of a handle was asked for
DiagAsked == last.op = "SQLGetDiagRec" /\ last.info.RecNumber = 1

\* C24: an operation on a connection or statement handle clears the
\* handle's diagnostic when it starts and sets it only if it fails: right
\* after an operation on the handle that returned success, retrieval of the
\* handle's diagnostic returns 'no data', whatever failed before.
C24_SuccessLeavesNoDiagnostic ==
    (/\ DiagAsked
     /\ last.info.after \in CallsOn(last.info.HandleType)
     /\ last.info.afterRet = "SQL_SUCCESS")
        => last.ret = "SQL_NO_DATA"

\* C25: a diagnostic is consumed by retrieval: retrieved again from the same
\* handle with no other call in between, the second retrieval returns
\* 'no data'.
C25_RetrievalConsumes ==
    (/\ DiagAsked
     /\ last.info.after = "SQLGetDiagRec"
     /\ last.info.afterHandle = last.info.HandleType
     /\ last.info.afterRet = "SQL_SUCCESS")
        => last.ret = "SQL_NO_DATA"

\* C27: a cancel request is answered with an error whose diagnostic says
\* 'not implemented' or 'not supported', sends nothing on the session and
\* leaves the statement's state as it was.
C27_CancelUnsupported ==
    [][last'.op = "SQLCancel" =>
          /\ last'.ret = "SQL_ERROR"
          /\ stmt'.m_error \in {E_HYC00, E_IM001}
          /\ last'.sent = <<>>
          /\ stmt'.m_state = stmt.m_state]_vars

\* SQLGetData was asked for a column whose fetched value is null, and was
\* given no StrLen_or_Ind
GetDataOfNull ==
    /\ last.op = "SQLGetData"
    /\ InRange(stmt.m_impRow, last.info[1] - 1)
    /\ Imp(last.info[1]).m_wasNull
    /\ ~last.info[2].ind

\* a fetch was delivered a row in which a column is null that is bound to a
\* buffer without an indicator
FetchOfNull ==
    /\ AnsweredWith("SQLFetch", CH_1)
    /\ last.live
    /\ \E i \in Columns :
          /\ Imp(i).m_wasNull
          /\ App(i).m_pointer # 0
          /\ App(i).m_statusPointer = 0

\* C26: a fetched null for which the caller gave no indicator is reported as
\* an error, by SQLGetData and by a fetch into a bound column alike.
C26_NullNeedsIndicator ==
    /\ GetDataOfNull => last.ret = "SQL_ERROR" /\ stmt.m_error = E_22002
    /\ FetchOfNull => last.ret = "SQL_ERROR"

\* a connect entry point was called with a well-formed target
ConnectCalls == {"SQLConnect", "SQLDriverConnect"}
Connecting ==
    last.op \in ConnectCalls /\ last.info.url.hasPrefix /\ last.info.url.slash > 0

\* C28: connect failures are classified by phase.  If the stream could not be
\* established the connection records 08001 and no connect request is sent;
\* if it was established the 'C' request is sent, 08001 is never recorded,
\* and a status other than 'O' records 08004.
C28_FailureByPhase ==
    Connecting =>
        IF last.info.established
        THEN /\ conn.m_error # E_08001
             /\ last.info.handshake
             /\ last.sent # <<>> /\ Head(last.sent) = CH_C
             /\ last.info.status # CH_O => conn.m_error = E_08004
        ELSE /\ conn.m_error = E_08001
             /\ ~last.info.handshake
             /\ last.sent = <<>>

\* open failed: the target is malformed, the stream was not established, or
\* the server's status was not 'O'
OpenFailed ==
    \/ ~last.info.url.hasPrefix
    \/ last.info.url.slash <= 0
    \/ ~last.info.established
    \/ ~(last.info.handshake /\ last.info.status = CH_O)

\* C29: the connect entry points return an error whenever open fails, so
\* that success is returned only for a connection that was opened.
C29_ConnectReportsFailure ==
    (last.op \in ConnectCalls /\ OpenFailed) => last.ret = "SQL_ERROR"

\* the result-set state of a statement
ResultSetState(st) ==
    [m_state |-> st.m_state, m_hasResultSet |-> st.m_hasResultSet,
     m_resultSetId |-> st.m_resultSetId, m_columnCount |-> st.m_columnCount,
     m_updateCount |-> st.m_updateCount, m_rowId |-> st.m_rowId,
     m_impRow |-> st.m_impRow, m_appRow |-> st.m_appRow]

\* the statement st after an execute-direct that is answered 'R' and then
\* the bytes payload, on a session with nothing unread
ExecutedWith(st, m, payload) ==
    Statement_execute([st EXCEPT !.m_error = E_NONE], m,
                      NewSocket(TRUE, <<CH_R>> \o payload, TRUE, 0), <<>>).st

AllMetaCalls == MetaCalls \cup CatalogCalls

\* C30: a metadata query answered with a result set leaves the statement's
\* result-set state as an execute-direct answered 'R' with the same bytes
\* would: EXECUTED, a result set with the reported id and column count,
\* update count 0, row ordinal 0, both row descriptors rebuilt.
C30_MetaAsExecute ==
    [][ (/\ last'.op \in AllMetaCalls
         /\ last'.ret = "SQL_SUCCESS"
         /\ last'.answered /\ last'.live
         /\ rx = <<>>) =>
            /\ ResultSetState(stmt') = ResultSetState(ExecutedWith(stmt, mem, last'.resp))
            /\ stmt'.m_state = "S_EXECUTED"
            /\ stmt'.m_hasResultSet
            /\ stmt'.m_resultSetId = IntOfBytes(SubSeq(last'.resp, 1, 4))
            /\ stmt'.m_columnCount = IntOfBytes(SubSeq(last'.resp, 5, 8))
            /\ stmt'.m_updateCount = 0
            /\ stmt'.m_rowId = 0
            /\ Descriptor_getRecordCount(stmt'.m_impRow) = stmt'.m_columnCount
            /\ Descriptor_getRecordCount(stmt'.m_appRow) = stmt'.m_columnCount
            /\ \A i \in 1..stmt'.m_columnCount :
                  stmt'.m_appRow.m_records[i] = NewRecord ]_vars

\* SQLStatistics was answered with a result set of an integer and a text
\* column
C30_Witness ==
    /\ last.op = "SQLStatistics"
    /\ last.ret = "SQL_SUCCESS"
    /\ last.answered /\ last.live
    /\ stmt.m_hasResultSet
    /\ stmt.m_resultSetId = 7
    /\ stmt.m_columnCount = 2
    /\ Descriptor_getRecordCount(stmt.m_impRow) = 2
    /\ Imp(2).m_sqlDataType = SQL_VARCHAR
    /\ stmt.m_rowId = 0

\* the calls that use the connection's session on behalf of a statement
SessionCalls ==
    {"SQLExecDirect", "SQLTables", "SQLGetTypeInfo", "SQLFetch"}

StatementFreed == last'.op = "SQLFreeHandle" /\ last'.info.type = "free STMT"

\* the statement has a result set that has not been closed
OpenResultSet(st) == st.m_hasResultSet /\ st.m_resultSetId >= 0

\* the close-cursor message for the statement's result set
CloseCursorMessage(st) == <<CH_F>> \o EncInt(st.m_resultSetId)

\* C32: destroying a statement that has an open result set sends 'F' and the
\* result-set id; destroying one without an open result set sends nothing.
C32_DestroyClosesCursor ==
    [][ StatementFreed =>
            last'.sent = IF OpenResultSet(stmt) /\ sock.m_socket # 0
                         THEN CloseCursorMessage(stmt) ELSE <<>> ]_vars

\* the moves of the connection state that the state machine INIT -> OPEN ->
\* CLOSED allows, CLOSED being terminal
AllowedMoves ==
    {<<"C_INIT", "C_OPEN">>, <<"C_INIT", "C_CLOSED">>, <<"C_OPEN", "C_CLOSED">>}

\* every change of the connection state is an allowed move
ConnectionStateMoves ==
    [][conn'.m_state # conn.m_state =>
           <<conn.m_state, conn'.m_state>> \in AllowedMoves]_vars

\* open assigns no state and close acts on OPEN only: the state never
\* leaves INIT
ConnectionStaysInit == conn.m_state = "C_INIT"

\* the message setAutoCommit(flag) sends when the flag differs from the
\* current value
ToggleMessage(flag) == <<CH_A, IF flag THEN CH_1 ELSE CH_0>>

\* C34: a new connection has auto-commit true and keeps it until the first
\* setAutoCommit, which sends nothing for true and exactly 'A','0' for false
\* (setAutoCommit sends the toggle exactly when the value changes).
C34_AutoCommitDefault ==
    /\ conn.m_autoCommit
    /\ [][ /\ last'.op # "SQLSetConnectAttr" => conn'.m_autoCommit = conn.m_autoCommit
           /\ (last'.op = "SQLSetConnectAttr" /\ last'.live /\ last'.ret # "CRASH") =>
                 last'.sent = IF last'.info.flag # conn.m_autoCommit
                              THEN ToggleMessage(last'.info.flag) ELSE <<>> ]_vars

\* the execute that was just made was answered 'E'
ExecuteRejected ==
    /\ last.op \in ExecuteCalls
    /\ last.live /\ last.answered
    /\ last.ret = "SQL_ERROR"

\* this step is an SQLFetch that returned
Fetching == last'.op = "SQLFetch" /\ last'.ret # "CRASH"

\* C35: a fetch that follows an execute-direct or execute-prepared answered
\* 'E' sends no 'G' and returns no data, whether or not an earlier execute
\* on the statement had produced a result set.
C35_NoFetchAfterError ==
    [][ (ExecuteRejected /\ Fetching) =>
            (last'.sent = <<>> /\ last'.ret = "SQL_NO_DATA") ]_vars

\* the result-set id a 'G' or 'F' request carries
RequestedId(sent) == IntOfBytes(SubSeq(sent, 2, 5))
CursorRequest(sent) == Len(sent) >= 5 /\ Head(sent) \in {CH_G, CH_F}

\* C36: a fetch that follows closeCursor sends no 'G' and returns no data,
\* and no 'G' or 'F' request carries the id -1.
C36_NoFetchAfterClose ==
    [][ /\ (last.op = "SQLCloseCursor" /\ last.ret # "CRASH" /\ Fetching) =>
              (last'.sent = <<>> /\ last'.ret = "SQL_NO_DATA")
        /\ CursorRequest(last'.sent) => RequestedId(last'.sent) # -1 ]_vars

\* the column count of the statement is the record count of both of its row
\* descriptors
CountsAgree(st) ==
    /\ Descriptor_getRecordCount(st.m_impRow) = st.m_columnCount
    /\ Descriptor_getRecordCount(st.m_appRow) = st.m_columnCount

\* this step is a call on a live session that was delivered its whole answer
WholeCall ==
    /\ last'.ret # "CRASH"
    /\ last'.live
    /\ last'.sent # <<>> => last'.answered

\* C37: the column count of the statement equals the record count of its
\* implementation and of its application row descriptor, and every call
\* keeps it so, an execute answered 'U' or 'E' after a query included.
C37_ColumnCountIsRecordCount ==
    [][ (CountsAgree(stmt) /\ WholeCall) => CountsAgree(stmt') ]_vars

\* fewer parameters are bound than the server declared for the statement
ParametersMissing(st) == Descriptor_getRecordCount(st.m_appParam) < st.m_parameterCount

\* C38: execute-prepared with fewer bound parameters than the declared
\* parameter count fails with an error and sends nothing.
C38_MissingParameterFails ==
    [][ (last'.op = "SQLExecute" /\ ParametersMissing(stmt)) =>
            (last'.ret = "SQL_ERROR" /\ last'.sent = <<>>) ]_vars

\* this step freed, or refused to free, a handle of the given type
Freeing(type) == last'.op = "SQLFreeHandle" /\ last'.info.type = type

\* C39: the open-connection count of an environment is the number of its
\* connections that are allocated and not freed; freeing a connection that
\* is not CLOSED is rejected and leaves the count; the environment is freed
\* exactly when the count is 0.
C39_OpenConnectionCount ==
    [][ /\ env'.henv => env'.m_openConnections = (IF env'.hdbc THEN 1 ELSE 0)
        /\ (Freeing("free DBC") /\ ~Connection_isClosed(conn)) =>
              /\ last'.ret = "SQL_ERROR"
              /\ env'.m_openConnections = env.m_openConnections
        /\ Freeing("free ENV") =>
              (last'.ret = "SQL_SUCCESS" <=> env.m_openConnections = 0) ]_vars

\* this step executes the statement anew on a live session
Reexecuting ==
    /\ last'.op \in ExecuteCalls \cup AllMetaCalls
    /\ last'.live /\ last'.ret # "CRASH"

\* C40: when a statement that has an open result set is executed again, the
\* call first releases that result set with 'F' and its id.
C40_ReleasedBeforeExecute ==
    [][ (OpenResultSet(stmt) /\ Reexecuting) =>
            /\ Len(last'.sent) >= 5
            /\ SubSeq(last'.sent, 1, 5) = CloseCursorMessage(stmt) ]_vars

=============================================================================
